---- MODULE Spec2Model ----
(***************************************************************************)
(* Model of the tile-URL cache of gee-proxy (src/gee-proxy/server.py and   *)
(* the identical copy in server_cloud.py) and of the request handlers that *)
(* use it.  The server runs with app.run(threaded=True): every request is  *)
(* handled on its own thread, the module-level dict _tile_cache is shared, *)
(* and there is no lock.  A thread can be pre-empted between any two       *)
(* statements, so each dict access and each clock read is one step.        *)
(***************************************************************************)
EXTENDS Integers, FiniteSets, Sequences, TLC

\* ---------------------------------------------------------------- bounds
MaxTicks == 1
MaxRequests == 3
\* Requests accepted in the runs of SpecQuick.
MaxQuickRequests == 4
\* Requests handled one after the other in the runs of SpecTiles and
\* SpecCluster.
MaxSeqRequests == 2
\* Longest band list a request carries.
MaxBands == 4
\* Largest value of the query parameter `clusters`.
MaxClusters == 17
\* Longest list of images the remote service returns to images_coverage.
MaxFeatures == 3
\* Longest list of items (image ids, dates) of a timelapse request.
MaxItems == 3
\* Animation requests handled one after the other in the runs of SpecBatch.
MaxAnimRequests == 2

\* Handler threads of the threaded server, cache keys (values of
\* _cache_key(...)) and tile URLs the remote service can hand out.
Threads == {"t1", "t2"}
Keys == {"k1", "k2"}
Urls == {"u1", "u2"}

\* Inputs of images_coverage.  MGRS tile identifiers and 'YYYY-MM-dd' dates
\* are strings that the code sorts; the model numbers them in their sorted
\* order.  NoTile is a feature without the property MGRS_TILE.  Cloud covers
\* are in hundredths of a percent.
Tiles == {1, 2}
NoTile == 0
Dates == {1, 2}
Clouds == {1, 4, 6}
Limits == (0 - 1)..2

\* Inputs of point_info.  Band values are in hundredths; Missing is a band
\* that is null in the result of the reduction.  A vector of the model has
\* one value in A00, one in A01, one in A02..A32 and one in A33..A63.  (For
\* vectors of these values no mean or deviation lies on a threshold of the
\* classifier, nor within a rounding error of one.)
BandValues == {0 - 32, 0 - 8, 0, 6, 32}
Missing == 999

\* ------------------------------------------------------- program constants
CACHE_TTL == 90 * 60
\* server.py:953  n_frames = min(int(n_frames), 60)
FrameCap == 60
\* all_bands = [f'A{i:02d}' for i in range(64)]
EmbLen == 64

\* Amounts by which the wall clock (time.time(), in seconds) advances in one
\* step of the model: exactly the TTL, or one second more (so that an entry
\* is seen at age 0, at age TTL and at an age above TTL).
TickSteps == {CACHE_TTL, CACHE_TTL + 1}

\* Python's None as a returned URL, and the value of locals not yet bound.
None == "None"
NoSrc == [url |-> None, ts |-> 0]
NoEntry == [url |-> None, ts |-> 0, src |-> NoSrc]
NoResp == [status |-> 0, cached |-> FALSE]
Absent == 0 - 1
NoFid == [st |-> "none", k |-> None, r |-> None, th |-> None]
\* No request, no response yet, nothing done yet.
NoReq == [ep |-> None, ok |-> TRUE, nbands |-> 0, clusters |-> 0,
          n_clusters |-> 0, data |-> TRUE]
NoRes == [status |-> 0, cached |-> FALSE, url |-> None, clusters |-> 0]
NoLog == [lookups |-> 0, remotes |-> 0, stores |-> 0, trainK |-> 0]
\* point_info: getInfo() returned None; no response yet.
NullResult == [null |-> TRUE, vals |-> << >>]
NoInfo == [status |-> 0, embedding |-> << >>, landCover |-> None]
\* images_coverage: no response yet.
NoCov == [status |-> 0, requiredTiles |-> << >>, tileCount |-> Absent,
          completeDates |-> Absent, dates |-> << >>, message |-> None]

VARIABLES
    cache,      \* _tile_cache: a dict, key -> (url, ts); the history field
                \* src of an entry holds the url and the time.time() value
                \* of the _set_cached call that bound the key
    clock,      \* time.time()
    ticks,      \* number of clock advances so far
    reqs,       \* number of requests accepted so far
    pc,         \* per thread: the statement it executes next
    key,        \* per thread: cache_key of the request
    rd,         \* per thread: (url, ts) unpacked at server.py:52
    cached,     \* per thread: return value of _get_cached
    now,        \* per thread: the value of time.time() read at :53 or :62
    tileUrl,    \* per thread: tile_url returned by get_tile_url
    itsize,     \* per thread: dict size seen when the items() iterator started
    expired,    \* per thread: the list `expired` of _set_cached
    todo,       \* per thread: the part of `expired` the loop of :64 has not
                \* visited yet
    err,        \* per thread: the exception that reached the handler
    resp,       \* per thread: status and `cached` flag of the response of the
                \* last request (its tileUrl is cached[t] or tileUrl[t] of
                \* the state before)
    look,       \* history: the timestamp of the entry the `in` test of :51
                \* found, or Absent
    alone,      \* history: no other thread touched the cache during this call
    fid,        \* history: tracks an undisturbed store-then-lookup pair
    hpc,        \* sequential handler: the statement it executes next
    hreq,       \* sequential handler: the query parameters of the request
    hkey,       \* sequential handler: cache_key
    hres,       \* sequential handler: the response of the last request
    hlog,       \* history: what the handler of the last request has done
    cpc,        \* images_coverage: the statement it executes next
    limit,      \* images_coverage: int(request.args.get('limit', 50))
    features,   \* images_coverage: the list the remote service returned
    cres,       \* images_coverage: the response
    complete,   \* history: complete_dates before the slice [:limit]
    ipc,        \* point_info: the statement it executes next
    result,     \* point_info: what reduceRegion(...).getInfo() returned
    ires        \* point_info: the response

\* The state of the threaded model of the cache's callers, and the state of
\* the models of one handler run at a time.
threadVars == <<pc, key, rd, cached, now, tileUrl, itsize, expired, todo,
                err, resp, look, alone, fid>>
handlerVars == <<hpc, hreq, hkey, hres, hlog>>
coverageVars == <<cpc, limit, features, cres, complete>>
infoVars == <<ipc, result, ires>>
restVars == <<handlerVars, coverageVars, infoVars>>

vars == <<cache, clock, ticks, reqs, pc, key, rd, cached, now, tileUrl,
          itsize, expired, todo, err, resp, look, alone, fid, restVars>>

\* ------------------------------------------------------------ pure helpers

\* server.py:53  time.time() - ts < CACHE_TTL
GetFreshLe(t, ts) == t - ts <= CACHE_TTL
GetFresh(t, ts) == t - ts < CACHE_TTL

\* server.py:63  now - ts > CACHE_TTL
SweepExpiredInv(t, ts) == t - ts < CACHE_TTL
SweepExpiredLate(t, ts) == t - ts > 2 * CACHE_TTL
SweepExpired(t, ts) == t - ts > CACHE_TTL

\* dict operations
Has(c, k) == k \in DOMAIN c
DictSet(c, k, e) == [x \in DOMAIN c \cup {k} |-> IF x = k THEN e ELSE c[x]]
DictDel(c, k) == [x \in DOMAIN c \ {k} |-> c[x]]
DictLen(c) == Cardinality(DOMAIN c)

\* Statements strictly inside a cache call: the call has made a dict access
\* and has not returned yet.
InsideGet == {"g_read", "g_check", "g_del"}
InsideSet == {"s_now", "s_iter", "s_collect", "s_del"}
\* ... including the state in which the call has just returned.
InCall == InsideGet \cup InsideSet \cup {"g_ret", "s_ret"}

\* Values of the locals of a handler that are not live.
Clr(f, t, v) == [f EXCEPT ![t] = v]

\* History bookkeeping of a dict access made by thread t.
AloneAfter(t) ==
    [v \in Threads |-> IF v = t THEN alone[t]
                       ELSE IF pc[v] \in InCall THEN FALSE ELSE alone[v]]
AloneStart(t) ==
    [v \in Threads |-> IF v = t THEN TRUE
                       ELSE IF pc[v] \in InCall THEN FALSE ELSE alone[v]]
FidKeep(t, st) == IF fid.st = st /\ fid.th = t THEN fid ELSE NoFid

\* server.py:60  the tuple (url, time.time()) bound to the key in one store
NewEntryTorn(c, k, url, t) ==
    [url |-> IF Has(c, k) THEN c[k].url ELSE url, ts |-> t,
     src |-> [url |-> url, ts |-> t]]
NewEntry(c, k, url, t) ==
    [url |-> url, ts |-> t, src |-> [url |-> url, ts |-> t]]

\* ------------------------------------------------------------------ Init
Init ==
    /\ cache = << >>
    /\ clock = 0
    /\ ticks = 0
    /\ reqs = 0
    /\ pc = [t \in Threads |-> "idle"]
    /\ key = [t \in Threads |-> None]
    /\ rd = [t \in Threads |-> NoEntry]
    /\ cached = [t \in Threads |-> None]
    /\ now = [t \in Threads |-> 0]
    /\ tileUrl = [t \in Threads |-> None]
    /\ itsize = [t \in Threads |-> 0]
    /\ expired = [t \in Threads |-> {}]
    /\ todo = [t \in Threads |-> {}]
    /\ err = [t \in Threads |-> "none"]
    /\ resp = [t \in Threads |-> NoResp]
    /\ look = [t \in Threads |-> Absent]
    /\ alone = [t \in Threads |-> TRUE]
    /\ fid = NoFid
    /\ hpc = "idle"
    /\ hreq = NoReq
    /\ hkey = None
    /\ hres = NoRes
    /\ hlog = NoLog
    /\ cpc = "idle"
    /\ limit = 0
    /\ features = << >>
    /\ cres = NoCov
    /\ complete = << >>
    /\ ipc = "idle"
    /\ result = NullResult
    /\ ires = NoInfo

\* --------------------------------------------------------------- actions
\* A local of a handler is reset to its initial value by the step after
\* which the code no longer reads it.

\* The wall clock advances.
Tick ==
    /\ ticks < MaxTicks
    /\ \E d \in TickSteps : clock' = clock + d
    /\ ticks' = ticks + 1
    /\ fid' = NoFid
    /\ UNCHANGED restVars
    /\ UNCHANGED <<cache, reqs, pc, key, rd, cached, now, tileUrl, itsize,
                   expired, todo, err, resp, look, alone>>

\* A request arrives and a thread that is idle, or has sent the response of
\* its previous request, starts the handler (tiles_embeddings,
\* server.py:97-106): the parameters are parsed and the cache key is built.
Accept(t, k, max) ==
    /\ pc[t] \in {"idle", "h_done"}
    /\ reqs < max
    /\ reqs' = reqs + 1
    /\ pc' = [pc EXCEPT ![t] = "g_in"]
    /\ key' = [key EXCEPT ![t] = k]
    /\ resp' = Clr(resp, t, NoResp)
    /\ UNCHANGED restVars
    /\ UNCHANGED <<cache, clock, ticks, rd, cached, now, tileUrl, itsize,
                   expired, todo, err, look, alone, fid>>

Request(t, k) == Accept(t, k, MaxRequests)

\* _get_cached, server.py:51  `if key in _tile_cache:` (else return None)
GIn(t) ==
    /\ pc[t] = "g_in"
    /\ look' = [look EXCEPT ![t] =
                  IF Has(cache, key[t]) THEN cache[key[t]].ts ELSE Absent]
    /\ pc' = [pc EXCEPT ![t] =
                  IF Has(cache, key[t]) THEN "g_read" ELSE "g_ret"]
    /\ alone' = AloneStart(t)
    /\ fid' = IF fid.st = "stored" /\ fid.k = key[t]
              THEN [fid EXCEPT !.st = "get", !.th = t]
              ELSE NoFid
    /\ UNCHANGED restVars
    /\ UNCHANGED <<cache, clock, ticks, reqs, key, rd, cached, now, tileUrl,
                   itsize, expired, todo, err, resp>>

\* _get_cached, server.py:52  `url, ts = _tile_cache[key]`
\* (KeyError when another thread has deleted the key since the `in` test)
GRead(t) ==
    /\ pc[t] = "g_read"
    /\ IF Has(cache, key[t])
       THEN /\ rd' = [rd EXCEPT ![t] = cache[key[t]]]
            /\ pc' = [pc EXCEPT ![t] = "g_check"]
            /\ err' = err
       ELSE /\ err' = [err EXCEPT ![t] = "get:KeyError"]
            /\ pc' = [pc EXCEPT ![t] = "h_exc"]
            /\ rd' = rd
    /\ alone' = AloneAfter(t)
    /\ fid' = FidKeep(t, "get")
    /\ UNCHANGED restVars
    /\ UNCHANGED <<cache, clock, ticks, reqs, key, cached, now, tileUrl,
                   itsize, expired, todo, resp, look>>

\* _get_cached, server.py:53-54  `if time.time() - ts < CACHE_TTL: return url`
GCheck(t) ==
    /\ pc[t] = "g_check"
    /\ now' = [now EXCEPT ![t] = clock]
    /\ IF GetFresh(clock, rd[t].ts)
       THEN /\ cached' = [cached EXCEPT ![t] = rd[t].url]
            /\ pc' = [pc EXCEPT ![t] = "g_ret"]
       ELSE /\ cached' = cached
            /\ pc' = [pc EXCEPT ![t] = "g_del"]
    /\ UNCHANGED restVars
    /\ UNCHANGED <<cache, clock, ticks, reqs, key, rd, tileUrl, itsize,
                   expired, todo, err, resp, look, alone, fid>>

\* _get_cached, server.py:55-56  `del _tile_cache[key]` then `return None`
\* (KeyError when another thread has deleted the key already)
GDel(t) ==
    /\ pc[t] = "g_del"
    /\ IF Has(cache, key[t])
       THEN /\ cache' = DictDel(cache, key[t])
            /\ pc' = [pc EXCEPT ![t] = "g_ret"]
            /\ err' = err
       ELSE /\ err' = [err EXCEPT ![t] = "get:KeyError"]
            /\ pc' = [pc EXCEPT ![t] = "h_exc"]
            /\ cache' = cache
    /\ alone' = AloneAfter(t)
    /\ fid' = FidKeep(t, "get")
    /\ UNCHANGED restVars
    /\ UNCHANGED <<clock, ticks, reqs, key, rd, cached, now, tileUrl,
                   itsize, expired, todo, resp, look>>

\* tiles_embeddings, server.py:108-109
\* `if cached: return jsonify({'tileUrl': cached, 'cached': True})`
HBranch(t) ==
    /\ pc[t] = "g_ret"
    /\ IF cached[t] # None
       THEN /\ resp' = [resp EXCEPT ![t] =
                          [status |-> 200, cached |-> TRUE]]
            /\ pc' = [pc EXCEPT ![t] = "h_done"]
            /\ look' = Clr(look, t, Absent)
            /\ key' = Clr(key, t, None)
       ELSE /\ pc' = [pc EXCEPT ![t] = "h_remote"]
            /\ UNCHANGED <<resp, look, key>>
    /\ rd' = Clr(rd, t, NoEntry)
    /\ now' = Clr(now, t, 0)
    /\ cached' = Clr(cached, t, None)
    /\ alone' = [alone EXCEPT ![t] = TRUE]
    /\ fid' = IF fid.th = t THEN NoFid ELSE fid
    /\ UNCHANGED restVars
    /\ UNCHANGED <<cache, clock, ticks, reqs, tileUrl, itsize, expired, todo,
                   err>>

\* tiles_embeddings, server.py:111-113: the pipeline is built and
\* get_tile_url(vis) returns the URL the remote service made.
Remote(t) ==
    /\ pc[t] = "h_remote"
    /\ \E u \in Urls : tileUrl' = [tileUrl EXCEPT ![t] = u]
    /\ pc' = [pc EXCEPT ![t] = "s_put"]
    /\ look' = Clr(look, t, Absent)
    /\ UNCHANGED restVars
    /\ UNCHANGED <<cache, clock, ticks, reqs, key, rd, cached, now, itsize,
                   expired, todo, err, resp, alone, fid>>

\* ... or the remote call raises.
RemoteFail(t) ==
    /\ pc[t] = "h_remote"
    /\ err' = [err EXCEPT ![t] = "remote:Error"]
    /\ pc' = [pc EXCEPT ![t] = "h_exc"]
    /\ look' = Clr(look, t, Absent)
    /\ UNCHANGED restVars
    /\ UNCHANGED <<cache, clock, ticks, reqs, key, rd, cached, now, tileUrl,
                   itsize, expired, todo, resp, alone, fid>>

\* _set_cached, server.py:60  `_tile_cache[key] = (url, time.time())`
SPut(t) ==
    /\ pc[t] = "s_put"
    /\ cache' = DictSet(cache, key[t],
                        NewEntry(cache, key[t], tileUrl[t], clock))
    /\ pc' = [pc EXCEPT ![t] = "s_now"]
    /\ alone' = AloneStart(t)
    /\ fid' = [st |-> "set", k |-> key[t], r |-> tileUrl[t], th |-> t]
    /\ UNCHANGED restVars
    /\ UNCHANGED <<clock, ticks, reqs, key, rd, cached, now, tileUrl, itsize,
                   expired, todo, err, resp, look>>

\* _set_cached, server.py:62  `now = time.time()`
SNow(t) ==
    /\ pc[t] = "s_now"
    /\ now' = [now EXCEPT ![t] = clock]
    /\ pc' = [pc EXCEPT ![t] = "s_iter"]
    /\ UNCHANGED restVars
    /\ UNCHANGED <<cache, clock, ticks, reqs, key, rd, cached, tileUrl,
                   itsize, expired, todo, err, resp, look, alone, fid>>

\* _set_cached, server.py:63  `_tile_cache.items()`: the list comprehension
\* starts iterating; the iterator remembers the size of the dict.
SIter(t) ==
    /\ pc[t] = "s_iter"
    /\ itsize' = [itsize EXCEPT ![t] = DictLen(cache)]
    /\ pc' = [pc EXCEPT ![t] = "s_collect"]
    /\ alone' = AloneAfter(t)
    /\ fid' = FidKeep(t, "set")
    /\ UNCHANGED restVars
    /\ UNCHANGED <<cache, clock, ticks, reqs, key, rd, cached, now, tileUrl,
                   expired, todo, err, resp, look>>

\* _set_cached, server.py:63  the comprehension runs over the items:
\* `expired = [k for k, (_, ts) in ... if now - ts > CACHE_TTL]`.
\* The iterator raises RuntimeError ("dictionary changed size during
\* iteration") when the dict's size differs from the one it remembers.
SCollect(t) ==
    /\ pc[t] = "s_collect"
    /\ IF DictLen(cache) = itsize[t]
       THEN /\ expired' = [expired EXCEPT ![t] =
                 {k \in DOMAIN cache : SweepExpired(now[t], cache[k].ts)}]
            /\ todo' = [todo EXCEPT ![t] =
                 {k \in DOMAIN cache : SweepExpired(now[t], cache[k].ts)}]
            /\ pc' = [pc EXCEPT ![t] = "s_del"]
            /\ UNCHANGED <<err, now, tileUrl>>
       ELSE /\ err' = [err EXCEPT ![t] = "set:RuntimeError"]
            /\ pc' = [pc EXCEPT ![t] = "h_exc"]
            /\ now' = Clr(now, t, 0)
            /\ tileUrl' = Clr(tileUrl, t, None)
            /\ UNCHANGED <<expired, todo>>
    /\ itsize' = Clr(itsize, t, 0)
    /\ alone' = AloneAfter(t)
    /\ fid' = FidKeep(t, "set")
    /\ UNCHANGED restVars
    /\ UNCHANGED <<cache, clock, ticks, reqs, key, rd, cached, resp, look>>

\* _set_cached, server.py:64-65  `for k in expired: del _tile_cache[k]`
\* (KeyError when another thread has deleted k since it was collected)
SDel(t) ==
    /\ pc[t] = "s_del"
    /\ todo[t] # {}
    /\ \E k \in todo[t] :
         IF Has(cache, k)
         THEN /\ cache' = DictDel(cache, k)
              /\ todo' = [todo EXCEPT ![t] = todo[t] \ {k}]
              /\ UNCHANGED <<pc, err, now, tileUrl, expired>>
         ELSE /\ err' = [err EXCEPT ![t] = "set:KeyError"]
              /\ pc' = [pc EXCEPT ![t] = "h_exc"]
              /\ expired' = Clr(expired, t, {})
              /\ todo' = Clr(todo, t, {})
              /\ now' = Clr(now, t, 0)
              /\ tileUrl' = Clr(tileUrl, t, None)
              /\ cache' = cache
    /\ alone' = AloneAfter(t)
    /\ fid' = FidKeep(t, "set")
    /\ UNCHANGED restVars
    /\ UNCHANGED <<clock, ticks, reqs, key, rd, cached, itsize, resp, look>>

\* _set_cached returns: the loop of server.py:64 is exhausted.
SRet(t) ==
    /\ pc[t] = "s_del"
    /\ todo[t] = {}
    /\ pc' = [pc EXCEPT ![t] = "s_ret"]
    /\ fid' = IF fid.st = "set" /\ fid.th = t
              THEN [fid EXCEPT !.st = "stored"]
              ELSE fid
    /\ UNCHANGED restVars
    /\ UNCHANGED <<cache, clock, ticks, reqs, key, rd, cached, now, tileUrl,
                   itsize, expired, todo, err, resp, look, alone>>

\* tiles_embeddings, server.py:116
\* `return jsonify({'tileUrl': tile_url, 'cached': False})`
HRespond(t) ==
    /\ pc[t] = "s_ret"
    /\ resp' = [resp EXCEPT ![t] =
                  [status |-> 200, cached |-> FALSE]]
    /\ pc' = [pc EXCEPT ![t] = "h_done"]
    /\ now' = Clr(now, t, 0)
    /\ tileUrl' = Clr(tileUrl, t, None)
    /\ expired' = Clr(expired, t, {})
    /\ key' = Clr(key, t, None)
    /\ alone' = [alone EXCEPT ![t] = TRUE]
    /\ UNCHANGED restVars
    /\ UNCHANGED <<cache, clock, ticks, reqs, rd, cached, itsize,
                   todo, err, look, fid>>

\* tiles_embeddings, server.py:118-120
\* `except Exception as e: ... return jsonify({'error': str(e)}), 500`
HExcept(t) ==
    /\ pc[t] = "h_exc"
    /\ resp' = [resp EXCEPT ![t] =
                  [status |-> 500, cached |-> FALSE]]
    /\ pc' = [pc EXCEPT ![t] = "h_done"]
    /\ err' = Clr(err, t, "none")
    /\ look' = Clr(look, t, Absent)
    /\ alone' = [alone EXCEPT ![t] = TRUE]
    /\ rd' = Clr(rd, t, NoEntry)
    /\ now' = Clr(now, t, 0)
    /\ key' = Clr(key, t, None)
    /\ fid' = IF fid.th = t THEN NoFid ELSE fid
    /\ UNCHANGED restVars
    /\ UNCHANGED <<cache, clock, ticks, reqs, cached, tileUrl, itsize,
                   expired, todo>>

Next ==
    \/ Tick
    \/ \E t \in Threads, k \in Keys : Request(t, k)
    \/ \E t \in Threads : GIn(t)
    \/ \E t \in Threads : GRead(t)
    \/ \E t \in Threads : GCheck(t)
    \/ \E t \in Threads : GDel(t)
    \/ \E t \in Threads : HBranch(t)
    \/ \E t \in Threads : Remote(t)
    \/ \E t \in Threads : RemoteFail(t)
    \/ \E t \in Threads : SPut(t)
    \/ \E t \in Threads : SNow(t)
    \/ \E t \in Threads : SIter(t)
    \/ \E t \in Threads : SCollect(t)
    \/ \E t \in Threads : SDel(t)
    \/ \E t \in Threads : SRet(t)
    \/ \E t \in Threads : HRespond(t)
    \/ \E t \in Threads : HExcept(t)

Spec == Init /\ [][Next]_vars

\* ------------------------------------------------- cache calls are quick
\* The same program under the assumption that a cache call, which takes
\* microseconds, is over before the clock has advanced by a second: the
\* clock stands still while a thread is inside _get_cached or _set_cached.
\* Every behaviour of SpecQuick is a behaviour of the program as modelled
\* by Spec (with more requests).
TickQuiet ==
    /\ \A t \in Threads : pc[t] \notin (InsideGet \cup InsideSet)
    /\ Tick

RequestQuick(t, k) == Accept(t, k, MaxQuickRequests)

NextQuick ==
    \/ TickQuiet
    \/ \E t \in Threads, k \in Keys : RequestQuick(t, k)
    \/ \E t \in Threads : GIn(t)
    \/ \E t \in Threads : GRead(t)
    \/ \E t \in Threads : GCheck(t)
    \/ \E t \in Threads : GDel(t)
    \/ \E t \in Threads : HBranch(t)
    \/ \E t \in Threads : Remote(t)
    \/ \E t \in Threads : RemoteFail(t)
    \/ \E t \in Threads : SPut(t)
    \/ \E t \in Threads : SNow(t)
    \/ \E t \in Threads : SIter(t)
    \/ \E t \in Threads : SCollect(t)
    \/ \E t \in Threads : SDel(t)
    \/ \E t \in Threads : SRet(t)
    \/ \E t \in Threads : HRespond(t)
    \/ \E t \in Threads : HExcept(t)

SpecQuick == Init /\ [][NextQuick]_vars

\* ------------------------------------------- one handler run at a time
\* The handlers of the tile endpoints, one request after the other (no
\* second thread): the cache calls are then atomic.  A cache key is
\* str(args) of the arguments of _cache_key (server.py:46-47); the model
\* keeps the arguments themselves, and of the arguments only those the
\* requests of the model differ in.

\* _get_cached(key), server.py:50-57: the value returned and the dict left.
GetCachedResult(c, k, t) ==
    IF Has(c, k) /\ GetFresh(t, c[k].ts) THEN c[k].url ELSE None
GetCachedDict(c, k, t) ==
    IF Has(c, k) /\ ~GetFresh(t, c[k].ts) THEN DictDel(c, k) ELSE c

\* _set_cached(key, url), server.py:59-65: the dict left.
SetCachedDict(c, k, url, t) ==
    LET c1 == DictSet(c, k, NewEntry(c, k, url, t))
        keep == {x \in DOMAIN c1 : ~SweepExpired(t, c1[x].ts)}
    IN  [x \in keep |-> c1[x]]

\* server.py:194  n_clusters = max(2, min(15, n_clusters))
Min2(a, b) == IF a < b THEN a ELSE b
Max2(a, b) == IF a > b THEN a ELSE b
ClampWide(c) == Max2(2, Min2(16, c))
Clamp(c) == Max2(2, Min2(15, c))

\* A request is taken when the previous one has been answered.
SeqAccept(r) ==
    /\ hpc \in {"idle", "done"}
    /\ reqs < MaxSeqRequests
    /\ reqs' = reqs + 1
    /\ hreq' = r
    /\ hlog' = NoLog

\* The handler returns a response without having looked into the cache.
SeqReject(status) ==
    /\ hpc' = "done"
    /\ hkey' = None
    /\ hres' = [NoRes EXCEPT !.status = status]

\* The handler has built its cache key and goes on to _get_cached.
SeqProceed(k) ==
    /\ hpc' = "lookup"
    /\ hkey' = k
    /\ hres' = NoRes

\* tiles_embeddings, server.py:97-106.  n is len(bands) (split(',') never
\* returns an empty list); ok tells whether `min` and `max` parse as floats
\* (float() raises ValueError otherwise, before the band count is looked at).
TilesEmbeddings(n, ok) ==
    /\ SeqAccept([NoReq EXCEPT !.ep = "embeddings", !.ok = ok, !.nbands = n])
    /\ IF ~ok THEN SeqReject(500)
       ELSE IF n # 3 THEN SeqReject(400)
       ELSE SeqProceed(<<"embeddings", n>>)
    /\ UNCHANGED <<cache, clock, ticks, threadVars,
                   coverageVars, infoVars>>

\* tiles_change, server.py:257-265
TilesChange(n) ==
    /\ SeqAccept([NoReq EXCEPT !.ep = "change", !.nbands = n])
    /\ IF n # 3 THEN SeqReject(400)
       ELSE SeqProceed(<<"change", n>>)
    /\ UNCHANGED <<cache, clock, ticks, threadVars,
                   coverageVars, infoVars>>

\* tiles_dataset, server_cloud.py:702-720.  ds tells whether the `dataset`
\* parameter is there; n is len(bands), 0 when `bands` is missing or empty
\* (bands is then None); ok tells whether min, max, year and cloudFilter
\* parse as numbers.  The band count is not looked at.
TilesDataset(ds, n, ok) ==
    /\ SeqAccept([NoReq EXCEPT !.ep = "dataset", !.ok = ds /\ ok,
                               !.nbands = n])
    /\ IF ~ds THEN SeqReject(400)
       ELSE IF ~ok THEN SeqReject(500)
       ELSE SeqProceed(<<"dataset", n>>)
    /\ UNCHANGED <<cache, clock, ticks, threadVars,
                   coverageVars, infoVars>>

\* tiles_similarity, server.py:300-307.  data tells whether the embedding
\* mosaic has data at the point (lat, lng) of the request; ok tells whether
\* lat, lng and radius parse as floats.
TilesSimilarity(data, ok) ==
    /\ SeqAccept([NoReq EXCEPT !.ep = "similarity", !.ok = ok, !.data = data])
    /\ IF ~ok THEN SeqReject(500)
       ELSE SeqProceed(<<"similarity", data>>)
    /\ UNCHANGED <<cache, clock, ticks, threadVars,
                   coverageVars, infoVars>>

\* tiles_clustering, server.py:188-201.  c is int(clusters); ok tells
\* whether lat, lng, zoom and clusters parse as numbers.
TilesClustering(c, ok) ==
    /\ SeqAccept([NoReq EXCEPT !.ep = "clustering", !.ok = ok,
                               !.clusters = c,
                               !.n_clusters = IF ok THEN Clamp(c) ELSE 0])
    /\ IF ~ok THEN SeqReject(500)
       ELSE SeqProceed(<<"clustering", Clamp(c)>>)
    /\ UNCHANGED <<cache, clock, ticks, threadVars,
                   coverageVars, infoVars>>

\* cached = _get_cached(cache_key); if cached: return {tileUrl, cached: True}
\* (server.py:107-109, 202-204, 266-268, 308-310; server_cloud.py:721-723)
SeqLookup ==
    /\ hpc = "lookup"
    /\ cache' = GetCachedDict(cache, hkey, clock)
    /\ hlog' = [hlog EXCEPT !.lookups = @ + 1]
    /\ IF GetCachedResult(cache, hkey, clock) # None
       THEN /\ hpc' = "done"
            /\ hres' = [NoRes EXCEPT !.status = 200, !.cached = TRUE,
                                     !.url = GetCachedResult(cache, hkey,
                                                             clock)]
       ELSE /\ hpc' = "build"
            /\ hres' = hres
    /\ UNCHANGED <<clock, ticks, reqs, hreq, hkey, threadVars,
                   coverageVars, infoVars>>

\* The pipeline is built and get_tile_url(vis) returns the URL the remote
\* service made (server.py:111-113, 206-241, 270-278, 312-342;
\* server_cloud.py:725-783).  The clusterer is trained with n_clusters
\* (server.py:229).  tiles_similarity builds its reference image from the
\* values at the point without looking at them (server.py:317-326): it hands
\* the remote service the same deferred computation whether or not the
\* point has data.
SeqRemote ==
    /\ hpc = "build"
    /\ \E u \in Urls : hres' = [hres EXCEPT !.url = u]
    /\ hlog' = [hlog EXCEPT !.remotes = @ + 1,
                            !.trainK = hreq.n_clusters]
    /\ hpc' = "store"
    /\ UNCHANGED <<cache, clock, ticks, reqs, hreq, hkey, threadVars,
                   coverageVars, infoVars>>

\* ... or building the pipeline or the remote service raises: the
\* exception is caught by `except Exception` and answered 500
\* (server.py:118-120 and the like).
SeqRemoteFailSilent ==
    /\ hpc = "build"
    /\ hres' = [NoRes EXCEPT !.status = 200]
    /\ hlog' = [hlog EXCEPT !.remotes = @ + 1,
                            !.trainK = hreq.n_clusters]
    /\ hpc' = "done"
    /\ UNCHANGED <<cache, clock, ticks, reqs, hreq, hkey, threadVars,
                   coverageVars, infoVars>>
SeqRemoteFail ==
    /\ hpc = "build"
    /\ hres' = [NoRes EXCEPT !.status = 500]
    /\ hlog' = [hlog EXCEPT !.remotes = @ + 1,
                            !.trainK = hreq.n_clusters]
    /\ hpc' = "done"
    /\ UNCHANGED <<cache, clock, ticks, reqs, hreq, hkey, threadVars,
                   coverageVars, infoVars>>

\* _set_cached(cache_key, tile_url) and the response (server.py:115-116,
\* 242-243, 279-286, 344-345; server_cloud.py:785-792)
StoredUrlFixed == "u1"
StoredUrl == hres.url
SeqStore ==
    /\ hpc = "store"
    /\ cache' = SetCachedDict(cache, hkey, StoredUrl, clock)
    /\ hlog' = [hlog EXCEPT !.stores = @ + 1]
    /\ hres' = [hres EXCEPT !.status = 200, !.cached = FALSE,
                            !.clusters = hreq.n_clusters]
    /\ hpc' = "done"
    /\ UNCHANGED <<clock, ticks, reqs, hreq, hkey, threadVars,
                   coverageVars, infoVars>>

\* The endpoints that render bands chosen by the caller, and the similarity
\* endpoint.
NextTiles ==
    \/ Tick
    \/ \E n \in 1..MaxBands, ok \in BOOLEAN : TilesEmbeddings(n, ok)
    \/ \E n \in 1..MaxBands : TilesChange(n)
    \/ \E ds \in BOOLEAN, n \in 0..MaxBands, ok \in BOOLEAN :
           TilesDataset(ds, n, ok)
    \/ \E data \in BOOLEAN, ok \in BOOLEAN : TilesSimilarity(data, ok)
    \/ SeqLookup
    \/ SeqRemote
    \/ SeqRemoteFail
    \/ SeqStore

SpecTiles == Init /\ [][NextTiles]_vars

\* The clustering endpoint.
NextCluster ==
    \/ Tick
    \/ \E c \in (0 - 1)..MaxClusters, ok \in BOOLEAN : TilesClustering(c, ok)
    \/ SeqLookup
    \/ SeqRemote
    \/ SeqRemoteFail
    \/ SeqStore

SpecCluster == Init /\ [][NextCluster]_vars

\* tiles_deforestation, server.py:464-468.  pristine and deforested tell
\* whether the region of the request (bbox) holds a pixel of the pristine
\* anchor mask and of the deforested anchor mask (server.py:479-483); the
\* handler reads year and bbox as strings and asks nothing about the
\* anchors: the reductions over the masks (server.py:491-504) are deferred
\* computations it hands to the remote service with the rest of the
\* pipeline.
TilesDeforestation(pristine, deforested) ==
    /\ SeqAccept([NoReq EXCEPT !.ep = "deforestation",
                               !.data = pristine /\ deforested])
    /\ SeqProceed(<<"deforestation", pristine, deforested>>)
    /\ UNCHANGED <<cache, clock, ticks, threadVars,
                   coverageVars, infoVars>>

\* The deforestation endpoint.
NextDeforestation ==
    \/ Tick
    \/ \E pristine \in BOOLEAN, deforested \in BOOLEAN :
           TilesDeforestation(pristine, deforested)
    \/ SeqLookup
    \/ SeqRemote
    \/ SeqRemoteFail
    \/ SeqStore

SpecDeforestation == Init /\ [][NextDeforestation]_vars

\* -------------------------------------------------- coverage resolver
\* images_coverage (server_cloud.py:281-428): one request at a time; the
\* endpoint does not use the cache.

\* round(x, 1), server_cloud.py:370: hundredths to the nearest tenth (no
\* value of Clouds lies halfway between two tenths).
Round1(h) == (h + 5) \div 10

\* The increasing sequence of the elements of a set of numbers: sorted(...)
RECURSIVE SortedSeq(_)
SortedSeq(S) ==
    IF S = {} THEN << >>
    ELSE LET m == CHOOSE x \in S : \A y \in S : x <= y
         IN  <<m>> \o SortedSeq(S \ {m})

\* server_cloud.py:353-372  all_tiles and images_by_date[d]; the image id
\* (system:index) of a feature is its position in the list.
AllTiles(fs) == {fs[i].mgrs_tile : i \in DOMAIN fs} \ {NoTile}
DatesOf(fs) == {fs[i].date : i \in DOMAIN fs}
RECURSIVE ImagesUpTo(_, _, _)
ImagesUpTo(fs, d, n) ==
    IF n = 0 THEN << >>
    ELSE IF fs[n].date = d
         THEN Append(ImagesUpTo(fs, d, n - 1),
                     [id |-> n, tileId |-> fs[n].mgrs_tile,
                      cloudCover |-> Round1(fs[n].cloudCover)])
         ELSE ImagesUpTo(fs, d, n - 1)
ImagesByDate(fs, d) == ImagesUpTo(fs, d, Len(fs))

\* server_cloud.py:381-384  date_tiles >= set(required_tiles)
DateTiles(images) == {images[i].tileId : i \in DOMAIN images} \ {NoTile}
IsCompleteAny(fs, d) == DateTiles(ImagesByDate(fs, d)) # {}
IsComplete(fs, d) == AllTiles(fs) \subseteq DateTiles(ImagesByDate(fs, d))

\* server_cloud.py:386-390  best_per_tile after the first n images
Better(img, best) == img.cloudCover < best.cloudCover
RECURSIVE BestUpTo(_, _)
BestUpTo(images, n) ==
    IF n = 0 THEN << >>
    ELSE LET b == BestUpTo(images, n - 1)
             img == images[n]
             tile == img.tileId
         IN  IF tile # NoTile /\ (~Has(b, tile) \/ Better(img, b[tile]))
             THEN DictSet(b, tile, img)
             ELSE b
BestPerTile(images) == BestUpTo(images, Len(images))

RECURSIVE SumCloud(_, _)
SumCloud(best, S) ==
    IF S = {} THEN 0
    ELSE LET t == CHOOSE x \in S : TRUE
         IN  best[t].cloudCover + SumCloud(best, S \ {t})

\* server_cloud.py:392-406  the record appended for a complete date.  The
\* mean is kept as the fraction sum / len it is computed from.
DateRecord(fs, d) ==
    LET best == BestPerTile(ImagesByDate(fs, d))
        order == SortedSeq(DOMAIN best)
    IN  [date |-> d,
         avgCloudCover |-> [sum |-> SumCloud(best, DOMAIN best),
                            len |-> Cardinality(DOMAIN best)],
         tiles |-> [j \in DOMAIN order |->
                      [tileId |-> order[j],
                       imageId |-> best[order[j]].id,
                       cloudCover |-> best[order[j]].cloudCover]]]

\* server_cloud.py:379-406  complete_dates when the loop ends
CompleteDates(fs) ==
    LET ds == SortedSeq({d \in DatesOf(fs) : IsComplete(fs, d)})
    IN  [j \in DOMAIN ds |-> DateRecord(fs, ds[j])]

\* server_cloud.py:393  sum(...) / len(best_per_tile) raises
\* ZeroDivisionError when a date passes the test of :384 with no tile.
ZeroDivision(fs) ==
    \E d \in DatesOf(fs) :
        IsComplete(fs, d) /\ DateTiles(ImagesByDate(fs, d)) = {}

\* server_cloud.py:409  complete_dates[:limit]
SliceAll(seq, n) == seq
Slice(seq, n) ==
    IF n >= 0 THEN SubSeq(seq, 1, Min2(n, Len(seq)))
    ELSE SubSeq(seq, 1, Max2(0, Len(seq) + n))

\* server_cloud.py:420  'completeDates': len(complete_dates), after the
\* slice of :409
CompleteCountAll(dates, n) == Len(dates)
CompleteCount(dates, n) == Len(Slice(dates, n))

Feature == [mgrs_tile : Tiles \cup {NoTile}, date : Dates,
            cloudCover : Clouds]
FeatureLists == UNION {[1..n -> Feature] : n \in 0..MaxFeatures}

\* server_cloud.py:305-321: the parameters are parsed.  num tells whether
\* maxCloud and limit parse as numbers, bbox is "" (missing), "bad" (not
\* four numbers) or "ok", s2 tells whether the dataset name has 'S2' or
\* 'COPERNICUS' in it.  The handler keeps nothing from one request to the
\* next, so every request starts in the state the first one starts in.
CoverageRequest(num, bbox, s2, n) ==
    /\ cpc = "idle"
    /\ limit' = IF num THEN n ELSE 0
    /\ features' = << >>
    /\ complete' = << >>
    /\ IF ~num THEN /\ cres' = [NoCov EXCEPT !.status = 500]
                    /\ cpc' = "done"
       ELSE IF bbox = "" \/ ~s2
            THEN /\ cres' = [NoCov EXCEPT !.status = 400]
                 /\ cpc' = "done"
       ELSE IF bbox = "bad"
            THEN /\ cres' = [NoCov EXCEPT !.status = 500]
                 /\ cpc' = "done"
       ELSE /\ cres' = NoCov
            /\ cpc' = "fetch"
    /\ UNCHANGED <<cache, clock, ticks, reqs, threadVars, handlerVars,
                   infoVars>>

\* server_cloud.py:324-339  features = image_list.getInfo()['features']
CoverageFetch ==
    /\ cpc = "fetch"
    /\ \E fs \in FeatureLists : features' = fs
    /\ cpc' = "resolve"
    /\ UNCHANGED <<cache, clock, ticks, reqs, threadVars, handlerVars,
                   infoVars, limit, cres, complete>>

\* ... or the remote service raises (server_cloud.py:426-428).
CoverageFetchFail ==
    /\ cpc = "fetch"
    /\ cres' = [NoCov EXCEPT !.status = 500]
    /\ cpc' = "done"
    /\ UNCHANGED <<cache, clock, ticks, reqs, threadVars, handlerVars,
                   infoVars, limit, features, complete>>

\* server_cloud.py:341-350  the response when the remote service returned
\* no feature
EmptyResultError == [NoCov EXCEPT !.status = 500]
EmptyResult ==
    [NoCov EXCEPT !.status = 200, !.completeDates = 0,
                  !.message = "No images found matching criteria"]

\* server_cloud.py:341-428  the rest of the handler
CoverageResolve ==
    /\ cpc = "resolve"
    /\ cpc' = "done"
    /\ IF features = << >>
       THEN /\ cres' = EmptyResult
            /\ complete' = << >>
       ELSE IF ZeroDivision(features)
       THEN /\ cres' = [NoCov EXCEPT !.status = 500]
            /\ complete' = << >>
       ELSE /\ cres' =
                 [status |-> 200,
                  requiredTiles |-> SortedSeq(AllTiles(features)),
                  tileCount |-> Cardinality(AllTiles(features)),
                  completeDates |->
                      CompleteCount(CompleteDates(features), limit),
                  dates |-> Slice(CompleteDates(features), limit),
                  message |-> None]
            /\ complete' = CompleteDates(features)
    /\ UNCHANGED <<cache, clock, ticks, reqs, threadVars, handlerVars,
                   infoVars, limit, features>>

NextCoverage ==
    \/ \E num \in BOOLEAN, bbox \in {"", "bad", "ok"}, s2 \in BOOLEAN,
          n \in Limits : CoverageRequest(num, bbox, s2, n)
    \/ CoverageFetch
    \/ CoverageFetchFail
    \/ CoverageResolve

SpecCoverage == Init /\ [][NextCoverage]_vars

\* -------------------------------------------------- point info, classifier
\* point_info and classify_embedding (server.py:351-453); the endpoint does
\* not use the cache.  A confidence is in tenths.

RECURSIVE SumUpTo(_, _)
SumUpTo(e, n) == IF n = 0 THEN 0 ELSE e[n] + SumUpTo(e, n - 1)
\* sum(embedding), and the sum of the squares
Sum(e) == SumUpTo(e, Len(e))
SumSq(e) == SumUpTo([i \in DOMAIN e |-> e[i] * e[i]], Len(e))
\* len(embedding)^2 times the square of std_val (server.py:410-411):
\* n^2 * (sum((v - mean)^2) / n) = n * sum(v^2) - sum(v)^2
Var(e) == Len(e) * SumSq(e) - Sum(e) * Sum(e)
\* pos_count (server.py:414)
PosCount(e) == Cardinality({i \in DOMAIN e : e[i] > 0})
NegCount(e) == Cardinality({i \in DOMAIN e : e[i] < 0})

\* server.py:424-433  the five rules, in hundredths:
\* std_val < 0.05;  a00 > 0.1 and pos_count > 40;  mean_val < -0.05;
\* std_val > 0.15 and a01 > 0;  mean_val > 0 and std_val < 0.1
WaterRuleTight(e) == Var(e) < 3 * 3 * Len(e) * Len(e)
WaterRule(e) == Var(e) < 5 * 5 * Len(e) * Len(e)
VegetationRule(e) == e[1] > 10 /\ PosCount(e) > 40
UrbanRule(e) == Sum(e) < (0 - 5) * Len(e)
CroplandRuleLoose(e) == e[2] > 0
CroplandRule(e) == Var(e) > 15 * 15 * Len(e) * Len(e) /\ e[2] > 0
DesertRule(e) == Sum(e) > 0 /\ Var(e) < 10 * 10 * Len(e) * Len(e)

Cat(type, confidence) == [type |-> type, confidence |-> confidence]
Opt(b, x) == IF b THEN <<x>> ELSE << >>

\* server.py:423-436  categories before the sort
Fired(e) ==
    Opt(WaterRule(e), Cat("Water/Ocean", 7))
    \o Opt(VegetationRule(e), Cat("Vegetation/Forest", 6))
    \o Opt(UrbanRule(e), Cat("Urban/Built-up", 5))
    \o Opt(CroplandRule(e), Cat("Cropland", 5))
    \o Opt(DesertRule(e), Cat("Desert/Barren", 4))
CategoriesAlways(e) == Fired(e) \o <<Cat("Mixed/Unknown", 3)>>
Categories(e) ==
    IF Fired(e) = << >> THEN <<Cat("Mixed/Unknown", 3)>> ELSE Fired(e)

\* server.py:439  categories.sort(key=lambda x: -x[1]): a stable sort, by
\* insertion of each element behind those of at least its confidence.
InsertFront(sorted, x) ==
    LET ahead == Cardinality({i \in DOMAIN sorted :
                                 sorted[i].confidence > x.confidence})
    IN  SubSeq(sorted, 1, ahead) \o <<x>>
            \o SubSeq(sorted, ahead + 1, Len(sorted))
Insert(sorted, x) ==
    LET ahead == Cardinality({i \in DOMAIN sorted :
                                 sorted[i].confidence >= x.confidence})
    IN  SubSeq(sorted, 1, ahead) \o <<x>>
            \o SubSeq(sorted, ahead + 1, Len(sorted))
RECURSIVE SortUpTo(_, _)
SortUpTo(cats, n) ==
    IF n = 0 THEN << >> ELSE Insert(SortUpTo(cats, n - 1), cats[n])
SortByConfidence(cats) == SortUpTo(cats, Len(cats))

\* server.py:446-449  round(x, 4) of the statistics, in ten-thousandths.
\* mean_val is Sum(e) / Len(e) hundredths, so round(mean_val, 4) is the
\* integer nearest to 100 * Sum(e) / Len(e).  When that quotient lies
\* halfway between two integers, the floating-point error of the sum
\* decides which of the two round() returns: both are possible.
MeanStats(e) ==
    LET q == (100 * Sum(e)) \div Len(e)
        r == (100 * Sum(e)) % Len(e)
    IN  IF 2 * r < Len(e) THEN {q}
        ELSE IF 2 * r > Len(e) THEN {q + 1}
        ELSE {q, q + 1}
\* std_val is sqrt(Var(e)) / Len(e) hundredths: the nearest integer r to
\* 100 * sqrt(Var(e)) / Len(e), that is the r with
\* (2r - 1)^2 <= 4 * 100^2 * Var(e) / Len(e)^2 < (2r + 1)^2.
\* (For Len(e) = 64 the middle term is 625 * Var(e) / 64; it is computed
\* from the quotient and the remainder of Var(e) by 64.)
MaxStat == 100 * 100
StdScaled(e) == 625 * (Var(e) \div 64) + (625 * (Var(e) % 64)) \div 64
StdStat(e) ==
    LET f == StdScaled(e)
    IN  CHOOSE r \in 0..MaxStat :
            /\ (r = 0 \/ (2 * r - 1) * (2 * r - 1) <= f)
            /\ (2 * r + 1) * (2 * r + 1) > f
MaxOf(e) == CHOOSE x \in {e[i] : i \in DOMAIN e} :
                \A i \in DOMAIN e : e[i] <= x
MinOf(e) == CHOOSE x \in {e[i] : i \in DOMAIN e} :
                \A i \in DOMAIN e : e[i] >= x

\* server.py:441-453  the value classify_embedding returns; mean is
\* round(mean_val, 4)
ClassifyEmbedding(e, mean) ==
    LET cats == SortByConfidence(Categories(e))
    IN  [type |-> cats[1].type,
         confidence |-> cats[1].confidence,
         alternatives |-> SubSeq(cats, 2, Min2(3, Len(cats))),
         stats |-> [mean |-> mean,
                    std |-> StdStat(e),
                    max |-> 100 * MaxOf(e),
                    min |-> 100 * MinOf(e),
                    positiveAxes |-> PosCount(e),
                    negativeAxes |-> NegCount(e)]]

\* What the reduction can return: None, or the values of the 64 bands.
Vector(a, b, c, d) ==
    [i \in 1..EmbLen |-> IF i = 1 THEN a
                         ELSE IF i = 2 THEN b
                         ELSE IF i <= 33 THEN c ELSE d]
Results ==
    {NullResult} \cup
    {[null |-> FALSE, vals |-> Vector(a, b, c, d)] :
        a \in BandValues \cup {Missing}, b \in BandValues \cup {Missing},
        c \in BandValues \cup {Missing}, d \in BandValues \cup {Missing}}

\* server.py:358-360: lat and lng are parsed; ok tells whether they parse as
\* floats.  The handler keeps nothing from one request to the next.
InfoRequest(ok) ==
    /\ ipc = "idle"
    /\ IF ok THEN ipc' = "reduce" /\ ires' = NoInfo
       ELSE ipc' = "done" /\ ires' = [NoInfo EXCEPT !.status = 500]
    /\ result' = NullResult
    /\ UNCHANGED <<cache, clock, ticks, reqs, threadVars, handlerVars,
                   coverageVars>>

\* server.py:362-373  result = emb_image.reduceRegion(...).getInfo()
InfoReduce ==
    /\ ipc = "reduce"
    /\ \E r \in Results : result' = r
    /\ ipc' = "respond"
    /\ UNCHANGED <<cache, clock, ticks, reqs, threadVars, handlerVars,
                   coverageVars, ires>>

\* ... or the remote service raises (server.py:398-400).
InfoReduceFail ==
    /\ ipc = "reduce"
    /\ ires' = [NoInfo EXCEPT !.status = 500]
    /\ ipc' = "done"
    /\ UNCHANGED <<cache, clock, ticks, reqs, threadVars, handlerVars,
                   coverageVars, result>>

\* server.py:375  result is None or all(v is None for v in result.values())
NoDataNullOnly(r) == r.null
NoData(r) == r.null \/ \A i \in DOMAIN r.vals : r.vals[i] = Missing

\* server.py:375-396  404 when there is no data, else the embedding
\* [result.get(b, 0) or 0 for b in all_bands] and its classification.
InfoRespond ==
    /\ ipc = "respond"
    /\ ipc' = "done"
    /\ IF NoData(result)
       THEN ires' = [NoInfo EXCEPT !.status = 404]
       ELSE LET embedding ==
                    [i \in DOMAIN result.vals |->
                        IF result.vals[i] = Missing THEN 0
                        ELSE result.vals[i]]
            IN  \E mean \in MeanStats(embedding) :
                    ires' = [status |-> 200,
                             embedding |-> embedding,
                             landCover |-> ClassifyEmbedding(embedding,
                                                             mean)]
    /\ UNCHANGED <<cache, clock, ticks, reqs, threadVars, handlerVars,
                   coverageVars, result>>

NextInfo ==
    \/ \E ok \in BOOLEAN : InfoRequest(ok)
    \/ InfoReduce
    \/ InfoReduceFail
    \/ InfoRespond

SpecInfo == Init /\ [][NextInfo]_vars

\* ------------------------------------------------ batches of frames
\* timelapse_frames and timelapse_mosaic (server_cloud.py:431-672), which
\* do not use the cache, and snow_animation_snodas and snow_animation_era5
\* (server.py:929-1019, server_cloud.py:1179-1243), which look every frame
\* up in the cache.  A request is handled in one step.  The clock stands
\* still in the runs of SpecBatch.

\* Inputs of the timelapse endpoints: the image ids a request names ("" is
\* an empty element of the comma-separated list), and the number of images
\* a date entry of timelapse_mosaic names.
ItemIds == {"", "a", "b"}
ImageCounts == {0, 2}
\* Inputs of the animation endpoints.  SnodasCounts: the frame count the
\* remote service computes, ceil((end - start) / interval); 13 is the count
\* of the default parameters, 91 that of the default dates with interval 1.
\* StartYears, EndYears: startYear and endYear of snow_animation_era5 (2015
\* and 2024 are the defaults).  FailAt: the position (from 0) of the frame
\* whose pipeline or remote call raises, if the loop gets to build it;
\* Absent when none does.
SnodasCounts == {0 - 3, 0, 13, 60, 91}
StartYears == {1964, 2015}
EndYears == {2014, 2024}
FailAt == {Absent, 0, 1}

AnimEps == {"snodas_anim", "era5_anim"}

\* A frame of a response: the imageId, date or year it is for, and its tile
\* URL or, for an {id, error} record, none.
Frame(id, url) == [id |-> id, tileUrl |-> url, error |-> FALSE]
ErrorFrame(id) == [id |-> id, tileUrl |-> None, error |-> TRUE]

\* Builds item i of a timelapse request: the frame appended by the body of
\* the loop, or by its `except Exception as img_error` clause
\* (server_cloud.py:598-662, 474-534).  bad is the set of the positions
\* whose pipeline or remote call raises.
BuildFrame(items, bad, u, i) ==
    IF i \in bad THEN ErrorFrame(items[i].id) ELSE Frame(items[i].id, u)

\* frames when the loop over the items ends; an entry of timelapse_mosaic
\* that names no image is passed over (server_cloud.py:478-479).
RECURSIVE FramesUpTo(_, _, _, _)
FramesUpTo(items, bad, u, n) ==
    IF n = 0 THEN << >>
    ELSE IF items[n].images = 0 THEN FramesUpTo(items, bad, u, n - 1)
    ELSE Append(FramesUpTo(items, bad, u, n - 1),
                BuildFrame(items, bad, u, n))

\* The response of a batch request.
BatchRes(status, frames) == [status |-> status, frames |-> frames]

\* Requests of the timelapse endpoints: the lists of image ids
\* (imageIds.split(','), never empty), and the lists of date entries.
IdLists == UNION {[1..n -> ItemIds] : n \in 1..MaxItems}
DateEntries == [id : Dates, images : ImageCounts]
EntryLists == UNION {[1..n -> DateEntries] : n \in 0..MaxItems}

\* The timelapse handlers keep nothing from one request to the next and do
\* not touch the cache: every request starts in the state the first one
\* starts in.
BatchAccept(r) ==
    /\ hpc = "idle"
    /\ hreq' = r
    /\ hpc' = "done"
    /\ hkey' = None
    /\ UNCHANGED <<cache, clock, ticks, reqs, threadVars, coverageVars,
                   infoVars>>

\* timelapse_frames, server_cloud.py:563-672.  ok tells whether min and max
\* parse as floats; an item whose id is empty cannot be built.
TimelapseFrames(ok, ids, bad, u) ==
    LET items == [i \in DOMAIN ids |-> [id |-> ids[i], images |-> 1]]
        raises == bad \cup {i \in DOMAIN ids : ids[i] = ""}
    IN  /\ BatchAccept([ep |-> "frames", ok |-> ok, items |-> items,
                          bad |-> raises])
        /\ IF ~ok THEN /\ hres' = BatchRes(500, << >>)
                        /\ hlog' = NoLog
           ELSE IF ids[1] = ""
           THEN /\ hres' = BatchRes(400, << >>)
                /\ hlog' = NoLog
           ELSE /\ hres' = BatchRes(200, FramesUpTo(items, raises, u,
                                                     Len(items)))
                /\ hlog' = [NoLog EXCEPT !.remotes = Len(items)]

\* timelapse_mosaic, server_cloud.py:446-544.  ok tells whether min and max
\* parse as floats, json whether `dates` parses as JSON.
TimelapseMosaic(ok, json, entries, bad, u) ==
    /\ BatchAccept([ep |-> "mosaic", ok |-> ok /\ json, items |-> entries,
                     bad |-> bad])
    /\ IF ~ok THEN /\ hres' = BatchRes(500, << >>)
                    /\ hlog' = NoLog
       ELSE IF ~json \/ entries = << >>
       THEN /\ hres' = BatchRes(400, << >>)
            /\ hlog' = NoLog
       ELSE /\ hres' = BatchRes(200, FramesUpTo(entries, bad, u,
                                                 Len(entries)))
            /\ hlog' = [NoLog EXCEPT !.remotes =
                           Cardinality({i \in DOMAIN entries :
                                           entries[i].images > 0})]

\* range(n): 0, 1, ..., n - 1, and range(a, b): a, ..., b - 1
Range(a, b) == [i \in 1..Max2(0, b - a) |-> a + i - 1]

\* The loop of an animation handler (server.py:956-969, 1002-1013): the
\* cache, the frames, what has been done so far, and whether an iteration
\* has raised (the loop has no try of its own, so it ends there).
LoopStart(c) ==
    [cache |-> c, frames |-> << >>, raised |-> FALSE,
     lookups |-> 0, remotes |-> 0, stores |-> 0]

\* One iteration, for the frame ids[n]: the frame is taken from the cache,
\* or built and stored.  fail is the position, from 0, of the frame whose
\* build raises.
LoopBody(ep, ids, fail, u, p, n) ==
    LET ck == <<ep, ids[n]>>
        cached_url == GetCachedResult(p.cache, ck, clock)
        c1 == GetCachedDict(p.cache, ck, clock)
    IN  IF p.raised THEN p
        ELSE IF cached_url # None
        THEN [p EXCEPT !.cache = c1,
                       !.frames = Append(@, Frame(ids[n], cached_url)),
                       !.lookups = @ + 1]
        ELSE IF fail = n - 1
        THEN [p EXCEPT !.cache = c1, !.raised = TRUE,
                       !.lookups = @ + 1, !.remotes = @ + 1]
        ELSE [p EXCEPT !.cache = SetCachedDict(c1, ck, u, clock),
                       !.frames = Append(@, Frame(ids[n], u)),
                       !.lookups = @ + 1, !.remotes = @ + 1,
                       !.stores = @ + 1]

\* The iterations lo..hi, in order, from the state p; nothing is left to
\* do once an iteration has raised.  (The range is halved to keep the
\* evaluation shallow.)
RECURSIVE LoopRange(_, _, _, _, _, _, _)
LoopRange(ep, ids, fail, u, p, lo, hi) ==
    IF p.raised \/ lo > hi THEN p
    ELSE IF lo = hi THEN LoopBody(ep, ids, fail, u, p, lo)
    ELSE LET mid == (lo + hi) \div 2
         IN  LoopRange(ep, ids, fail, u,
                       LoopRange(ep, ids, fail, u, p, lo, mid),
                       mid + 1, hi)
AnimLoop(ep, ids, fail, u, c) ==
    LoopRange(ep, ids, fail, u, LoopStart(c), 1, Len(ids))

\* An animation request is taken when the service is idle or has answered
\* an animation request.
AnimAccept ==
    /\ hpc = "idle" \/ (hpc = "done" /\ hreq.ep \in AnimEps)
    /\ reqs < MaxAnimRequests
    /\ reqs' = reqs + 1
    /\ hpc' = "done"
    /\ hkey' = None
    /\ UNCHANGED <<clock, ticks, threadVars, coverageVars, infoVars>>

\* The request as the model keeps it: the frames asked for and the
\* positions of those whose build raised.
AnimReq(ep, ok, ids, bad) ==
    [ep |-> ep, ok |-> ok,
     items |-> [i \in DOMAIN ids |-> [id |-> ids[i], images |-> 1]],
     bad |-> bad]

\* The loop runs and the response is made (server.py:956-975, 1002-1019).
Animation(ep, ids, fail, u) ==
    LET end == AnimLoop(ep, ids, fail, u, cache)
    IN  /\ hreq' = AnimReq(ep, TRUE, ids,
                           IF end.raised THEN {fail + 1} ELSE {})
        /\ cache' = end.cache
        /\ hlog' = [NoLog EXCEPT !.lookups = end.lookups,
                                 !.remotes = end.remotes,
                                 !.stores = end.stores]
        /\ hres' = IF end.raised THEN BatchRes(500, << >>)
                   ELSE BatchRes(200, end.frames)

\* A parameter does not parse, or the remote service raises before the
\* loop.
AnimReject(ep) ==
    /\ hreq' = AnimReq(ep, FALSE, << >>, {})
    /\ hres' = BatchRes(500, << >>)
    /\ hlog' = NoLog
    /\ cache' = cache

\* snow_animation_snodas, server.py:935-975.  ok tells whether interval
\* parses as an integer; n is what the remote service returns for
\* ceil((end - start) / interval), got tells whether it returns at all.
SnowAnimationSnodas(ok, got, n, fail, u) ==
    /\ AnimAccept
    /\ IF ok /\ got
       THEN Animation("snodas_anim", Range(0, Min2(n, FrameCap)), fail, u)
       ELSE AnimReject("snodas_anim")

\* snow_animation_era5, server.py:985-1019: one frame for every year of
\* range(start_year, end_year + 1).  ok tells whether startYear and endYear
\* parse as integers.
SnowAnimationEra5(ok, start_year, end_year, fail, u) ==
    /\ AnimAccept
    /\ IF ok
       THEN Animation("era5_anim", Range(start_year, end_year + 1), fail, u)
       ELSE AnimReject("era5_anim")

\* A request of a timelapse endpoint arrives.
TimelapseFramesRequest ==
    /\ hpc = "idle"
    /\ \E ok \in BOOLEAN, ids \in IdLists, u \in Urls :
           \E bad \in SUBSET DOMAIN ids : TimelapseFrames(ok, ids, bad, u)
TimelapseMosaicRequest ==
    /\ hpc = "idle"
    /\ \E ok \in BOOLEAN, json \in BOOLEAN, entries \in EntryLists,
          u \in Urls :
           \E bad \in SUBSET DOMAIN entries :
               TimelapseMosaic(ok, json, entries, bad, u)

NextBatch ==
    \/ TimelapseFramesRequest
    \/ TimelapseMosaicRequest
    \/ \E ok \in BOOLEAN, got \in BOOLEAN, n \in SnodasCounts,
          fail \in FailAt, u \in Urls :
           SnowAnimationSnodas(ok, got, n, fail, u)
    \/ \E ok \in BOOLEAN, start_year \in StartYears,
          end_year \in EndYears, fail \in FailAt, u \in Urls :
           SnowAnimationEra5(ok, start_year, end_year, fail, u)

SpecBatch == Init /\ [][NextBatch]_vars

\* ------------------------------------------------------------ cache keys
\* The cache key and the pipeline of a request, for two requests at a time.
\* A request is [ep, s, b, n]: the endpoint, its parameters kept as strings,
\* its band list (the empty list when the endpoint has none or, for
\* tiles_dataset, when bands is None) and its parameters parsed as numbers.
\* lat and lng are in 1/100000 degree, min and max in hundredths, degrees in
\* thousandths.  _cache_key is str(args) (server.py:46-47): the repr of the
\* tuple of its arguments, which tells apart strings, numbers and tuples
\* and their positions; the model keeps the arguments as [kind, s, b, n].

KeyYears == {"2022", "2023"}
KeyBands == {<<"A01", "A16", "A09">>, <<"A09", "A16", "A01">>}
KeyLats == {1245000, 1245004, 1245400, 1246000}
KeyLngs == {0 - 9350000, 0 - 9350400}
KeyZooms == {8, 10, 12}
KeyClusters == {1, 2, 5}
KeyBboxes == {"", "-94,41,-93,42"}
KeyMonths == {"", "10"}
KeyDates == {"2024-02-15", "2024-02-22"}
KeySnowBands == {"Snow_Depth", "SWE"}
KeyAnimYears == {2015, 2016}

CoordUnit == 100000

\* round(x, digits), server.py:201 and :306 (no value of KeyLats or KeyLngs
\* lies halfway between two neighbours)
RoundTo(x, digits) ==
    LET unit == CoordUnit \div (10 ^ digits)
    IN  ((2 * x + unit) \div (2 * unit)) * unit

ClusteringDigits == 2
SimilarityDigits == 4

\* server.py:196-198  degrees = max(0.1, min(2.0 * 2 ** (10 - zoom), 10))
Degrees(zoom) ==
    Max2(100, Min2(10000, IF zoom <= 10 THEN 2000 * (2 ^ (10 - zoom))
                          ELSE 2000 \div (2 ^ (zoom - 10))))

KeyReq(ep, s, b, n) == [ep |-> ep, s |-> s, b |-> b, n |-> n]

\* The requests of the model, endpoint by endpoint: the parameters each
\* handler reads (server.py:98-101, 132-134, 189-193, 258-260, 301-304,
\* 465-466, 549, 593-595, 761-762, 803-805, 959, 1002;
\* server_cloud.py:707-717).
EmbeddingsReqs ==
    {KeyReq("embeddings", <<y>>, bs, <<lo, 30>>) :
        y \in KeyYears, bs \in KeyBands, lo \in {0 - 30, 0 - 20}}
OpticalReqs ==
    {KeyReq("optical", <<y, m, bb>>, << >>, << >>) :
        y \in KeyYears, m \in KeyMonths, bb \in KeyBboxes}
ClusteringReqs ==
    {KeyReq("clustering", <<"2023">>, << >>, <<lat, lng, z, c>>) :
        lat \in KeyLats, lng \in KeyLngs, z \in KeyZooms, c \in KeyClusters}
ChangeReqs ==
    {KeyReq("change", <<y1, y2>>, bs, << >>) :
        y1 \in KeyYears, y2 \in KeyYears, bs \in KeyBands}
SimilarityReqs ==
    {KeyReq("similarity", <<"2023">>, << >>, <<lat, lng, radius>>) :
        lat \in KeyLats, lng \in KeyLngs, radius \in {1000, 500000}}
DatasetReqs ==
    {KeyReq("dataset", <<ds, "2023-01-01", "2024-01-01", red, "", "">>,
            bs, <<0, 3000, cloud>>) :
        ds \in {"COPERNICUS/S2_SR_HARMONIZED", "LANDSAT/LC08/C02/T1_L2"},
        red \in {"median", "mean"},
        bs \in {<< >>, <<"B4", "B3", "B2">>},
        cloud \in {20, 50}}
DeforestationReqs ==
    {KeyReq("deforestation", <<y, bb>>, << >>, << >>) :
        y \in KeyYears, bb \in KeyBboxes}
CdlReqs == {KeyReq("cdl", <<y>>, << >>, << >>) : y \in KeyYears}
BurnReqs ==
    {KeyReq("burn", <<y1, y2, bb>>, << >>, << >>) :
        y1 \in KeyYears, y2 \in KeyYears, bb \in KeyBboxes}
SnodasTileReqs ==
    {KeyReq("snodas_tile", <<d, band>>, << >>, << >>) :
        d \in KeyDates, band \in KeySnowBands}
Era5TileReqs ==
    {KeyReq("era5_tile", <<y, m, band>>, << >>, << >>) :
        y \in KeyYears, m \in {"01", "10"},
        band \in {"snowfall_sum", "snow_depth"}}
SnodasAnimReqs ==
    {KeyReq("snodas_anim", <<d, band>>, << >>, << >>) :
        d \in KeyDates, band \in KeySnowBands}
Era5AnimReqs ==
    {KeyReq("era5_anim", <<m, band>>, << >>, <<y>>) :
        y \in KeyAnimYears, m \in {"01", "10"},
        band \in {"snowfall_sum", "snow_depth"}}
KeyReqs ==
    EmbeddingsReqs \cup OpticalReqs \cup ClusteringReqs \cup ChangeReqs
    \cup SimilarityReqs \cup DatasetReqs \cup DeforestationReqs
    \cup CdlReqs \cup BurnReqs \cup SnodasTileReqs \cup Era5TileReqs
    \cup SnodasAnimReqs \cup Era5AnimReqs

\* The arguments handed to _cache_key (server.py:106, 136, 201, 265, 306,
\* 468, 551, 597, 764, 807, 959, 1002; server_cloud.py:720-721): the
\* endpoint's name first, then its parameters; tiles_clustering rounds lat
\* and lng to 2 decimals and passes the clamped n_clusters, tiles_similarity
\* rounds lat and lng to 4 decimals.
CacheKeyNoKind(r) == [kind |-> "tile", s |-> r.s, b |-> r.b, n |-> r.n]
CacheKey(r) ==
    IF r.ep = "clustering"
    THEN [kind |-> r.ep, s |-> r.s, b |-> r.b,
          n |-> <<RoundTo(r.n[1], ClusteringDigits),
                  RoundTo(r.n[2], ClusteringDigits), r.n[3], Clamp(r.n[4])>>]
    ELSE IF r.ep = "similarity"
    THEN [kind |-> r.ep, s |-> r.s, b |-> r.b,
          n |-> <<RoundTo(r.n[1], SimilarityDigits),
                  RoundTo(r.n[2], SimilarityDigits), r.n[3]>>]
    ELSE [kind |-> r.ep, s |-> r.s, b |-> r.b, n |-> r.n]

\* What the pipeline sent to the remote service is built from: the
\* endpoint's own construction, and the parameters it reads after the
\* lookup.  tiles_optical does not read bbox (server.py:141-165);
\* tiles_clustering reads lat and lng as given, the region size of zoom and
\* the clamped n_clusters (server.py:211-236); tiles_similarity reads lat
\* and lng as given and not radius (server.py:316-336); the other
\* endpoints read every parameter of their key.
Pipeline(r) ==
    IF r.ep = "optical"
    THEN [kind |-> r.ep, s |-> <<r.s[1], r.s[2]>>, b |-> r.b, n |-> r.n]
    ELSE IF r.ep = "clustering"
    THEN [kind |-> r.ep, s |-> r.s, b |-> r.b,
          n |-> <<r.n[1], r.n[2], Degrees(r.n[3]), Clamp(r.n[4])>>]
    ELSE IF r.ep = "similarity"
    THEN [kind |-> r.ep, s |-> r.s, b |-> r.b, n |-> <<r.n[1], r.n[2]>>]
    ELSE [kind |-> r.ep, s |-> r.s, b |-> r.b, n |-> r.n]

\* A first request builds its key and its pipeline ...
KeyFirst(r) ==
    /\ hpc = "idle"
    /\ hpc' = "first"
    /\ hreq' = <<r>>
    /\ hkey' = <<CacheKey(r)>>
    /\ hres' = <<Pipeline(r)>>
    /\ UNCHANGED <<cache, clock, ticks, reqs, hlog, threadVars,
                   coverageVars, infoVars>>

\* ... and so does a second one.
KeySecond(r) ==
    /\ hpc = "first"
    /\ hpc' = "keyed"
    /\ hreq' = Append(hreq, r)
    /\ hkey' = Append(hkey, CacheKey(r))
    /\ hres' = Append(hres, Pipeline(r))
    /\ UNCHANGED <<cache, clock, ticks, reqs, hlog, threadVars,
                   coverageVars, infoVars>>

NextKeys ==
    \/ \E r \in KeyReqs : KeyFirst(r)
    \/ \E r \in KeyReqs : KeySecond(r)

SpecKeys == Init /\ [][NextKeys]_vars

\* ------------------------------------------------------- optical window
\* tiles_optical, server.py:140-158: the date window of the composite.  A
\* date of the requested year is <<month, day>>; the window is filterDate's
\* [start, end), end excluded.  <<13, 1>> stands for January 1st of the
\* next year (the end of the whole-year window, server.py:157).

OptYears == {2023, 2024}
OptMonths == {Absent} \cup (1..12)

IsLeap(y) == (y % 4 = 0 /\ y % 100 # 0) \/ y % 400 = 0
DaysInMonth(y, m) ==
    IF m = 2 THEN (IF IsLeap(y) THEN 29 ELSE 28)
    ELSE IF m \in {4, 6, 9, 11} THEN 30
    ELSE 31

\* The number of the day <<m, d>> in the year y (January 1st is 1).
RECURSIVE DaysBefore(_, _)
DaysBefore(y, m) == IF m <= 1 THEN 0
                    ELSE DaysBefore(y, m - 1) + DaysInMonth(y, m - 1)
Ordinal(y, date) == DaysBefore(y, date[1]) + date[2]

\* server.py:142-158
OpticalRange(month) ==
    IF month # Absent
    THEN LET start_month == Max2(1, month - 1)
             end_month == Min2(12, month + 1)
         IN  [start |-> <<start_month, 1>>,
              end |-> IF end_month = 12 THEN <<12, 31>>
                      ELSE <<end_month + 1, 1>>]
    ELSE [start |-> <<1, 1>>, end |-> <<13, 1>>]

\* filterDate(start, end), server.py:160-161: the images of a day are kept
\* when start <= day < end.
Filtered(y, range, date) ==
    /\ Ordinal(y, range.start) <= Ordinal(y, date)
    /\ Ordinal(y, date) < Ordinal(y, range.end)

\* A request for a year and a month (or none) has its window computed ...
OpticalWindow(y, month) ==
    /\ hpc = "idle"
    /\ hpc' = "window"
    /\ hreq' = [year |-> y, month |-> month]
    /\ hres' = OpticalRange(month)
    /\ UNCHANGED <<cache, clock, ticks, reqs, hkey, hlog, threadVars,
                   coverageVars, infoVars>>

\* ... and the collection holds an image of some day of that year, which
\* the filter keeps or drops.
OpticalImage(m, d) ==
    /\ hpc = "window"
    /\ d <= DaysInMonth(hreq.year, m)
    /\ hpc' = "filtered"
    /\ hkey' = <<m, d>>
    /\ hlog' = [NoLog EXCEPT !.remotes = IF Filtered(hreq.year, hres,
                                                     <<m, d>>)
                                         THEN 1 ELSE 0]
    /\ UNCHANGED <<cache, clock, ticks, reqs, hreq, hres, threadVars,
                   coverageVars, infoVars>>

NextOptical ==
    \/ \E y \in OptYears, month \in OptMonths : OpticalWindow(y, month)
    \/ \E m \in 1..12, d \in 1..31 : OpticalImage(m, d)

SpecOptical == Init /\ [][NextOptical]_vars

\* ------------------------------------------------------ spectral indices
\* What timelapse_frames (server_cloud.py:575-647) and timelapse_mosaic
\* (server_cloud.py:460-520) render for a dataset, an index name and a band
\* list: a visualisation [formula, bands, style].  formula is the index
\* computed ("rgb" when the bands are shown as they are), bands the bands it
\* reads, style the min/max/palette set ("caller" for the caller's min and
\* max).

IndexDatasets == {"COPERNICUS/S2_SR_HARMONIZED", "COPERNICUS/S2_HARMONIZED",
                  "LANDSAT/LC08/C02/T1_L2", "LANDSAT/LC09/C02/T1_L2",
                  "MODIS/061/MOD13A1"}
IndexNames == {"", "ndvi", "NDVI", "ndwi", "ndbi", "evi", "EVI", "savi",
               "Savi", "msavi"}
IndexBands == {"", "B8,B4,B3"}

\* str.lower() on the names of the model
Lower(name) ==
    CASE name = "NDVI" -> "ndvi"
      [] name = "EVI" -> "evi"
      [] name = "Savi" -> "savi"
      [] OTHER -> name

\* `key in dataset` (server_cloud.py:467, 594) on the datasets of the model
InDataset(k, dataset) ==
    \/ k = "COPERNICUS/S2" /\ dataset \in {"COPERNICUS/S2_SR_HARMONIZED",
                                           "COPERNICUS/S2_HARMONIZED"}
    \/ k = "LANDSAT/LC08" /\ dataset = "LANDSAT/LC08/C02/T1_L2"
    \/ k = "LANDSAT/LC09" /\ dataset = "LANDSAT/LC09/C02/T1_L2"

\* Python's None for `mapping`, and the band mappings (known tells them
\* from None).
NoMapping == [known |-> FALSE, RED |-> None, GREEN |-> None, BLUE |-> None,
              NIR |-> None, SWIR |-> None]
Sentinel == [known |-> TRUE, RED |-> "B4", GREEN |-> "B3", BLUE |-> "B2",
             NIR |-> "B8", SWIR |-> "B11"]
Landsat == [known |-> TRUE, RED |-> "SR_B4", GREEN |-> "SR_B3",
            BLUE |-> "SR_B2", NIR |-> "SR_B5", SWIR |-> "SR_B6"]

\* server_cloud.py:585-597: the first key of band_mapping found in dataset
FramesMapping(dataset) ==
    IF InDataset("COPERNICUS/S2", dataset) THEN Sentinel
    ELSE IF InDataset("LANDSAT/LC08", dataset) THEN Landsat
    ELSE IF InDataset("LANDSAT/LC09", dataset) THEN Landsat
    ELSE NoMapping

\* server_cloud.py:461-470: the band_mapping of timelapse_mosaic has the
\* Sentinel-2 key only
MosaicMapping(dataset) ==
    IF InDataset("COPERNICUS/S2", dataset) THEN Sentinel ELSE NoMapping

IndexLibrary == {"ndvi", "ndwi", "ndbi", "evi", "savi"}

Vis(formula, bands, style) ==
    [formula |-> formula, bands |-> bands, style |-> style]

\* The bands of the standard RGB rendering (server_cloud.py:502-508,
\* 636-642); bands.split(',') is kept as the string it splits.
BandList(bands, mapping) ==
    IF bands # "" THEN <<bands>>
    ELSE IF mapping.known THEN <<mapping.RED, mapping.GREEN, mapping.BLUE>>
    ELSE <<"B4", "B3", "B2">>

\* The index formulas, as both handlers write them (server_cloud.py:480-494
\* and 612-628), and the style each goes with.
IndexVis(name, mapping) ==
    CASE name = "ndvi" -> Vis("ndvi", <<mapping.NIR, mapping.RED>>, "ndvi")
      [] name = "ndwi" -> Vis("ndwi", <<mapping.GREEN, mapping.NIR>>, "ndwi")
      [] name = "ndbi" -> Vis("ndbi", <<mapping.SWIR, mapping.NIR>>, "ndbi")
      [] name = "evi" -> Vis("evi", <<mapping.NIR, mapping.RED,
                                      mapping.BLUE>>, "ndvi")
      [] name = "savi" -> Vis("savi", <<mapping.NIR, mapping.RED>>, "ndvi")

\* timelapse_frames, server_cloud.py:609-643
FramesVis(dataset, index, bands) ==
    LET mapping == FramesMapping(dataset)
    IN  IF index # "" /\ Lower(index) \in IndexLibrary /\ mapping.known
        THEN IndexVis(Lower(index), mapping)
        ELSE Vis("rgb", BandList(bands, mapping), "caller")

\* timelapse_mosaic, server_cloud.py:479-510: the final else branch renders
\* the NDVI formula for every other name
MosaicVis(dataset, index, bands) ==
    LET mapping == MosaicMapping(dataset)
    IN  IF index # "" /\ mapping.known
        THEN IF Lower(index) \in {"ndvi", "ndwi", "ndbi", "evi"}
             THEN IndexVis(Lower(index), mapping)
             ELSE IndexVis("ndvi", mapping)
        ELSE Vis("rgb", BandList(bands, mapping), "caller")

\* The same dataset, index name and band list are given to
\* /api/timelapse/frames ...
RenderFrames(dataset, index, bands) ==
    /\ hpc = "idle"
    /\ hpc' = "frames"
    /\ hreq' = [dataset |-> dataset, index |-> index, bands |-> bands]
    /\ hres' = <<FramesVis(dataset, index, bands)>>
    /\ UNCHANGED <<cache, clock, ticks, reqs, hkey, hlog, threadVars,
                   coverageVars, infoVars>>

\* ... and to /api/timelapse/mosaic.
RenderMosaic ==
    /\ hpc = "frames"
    /\ hpc' = "mosaic"
    /\ hres' = Append(hres, MosaicVis(hreq.dataset, hreq.index, hreq.bands))
    /\ UNCHANGED <<cache, clock, ticks, reqs, hreq, hkey, hlog, threadVars,
                   coverageVars, infoVars>>

NextIndex ==
    \/ \E dataset \in IndexDatasets, index \in IndexNames,
          bands \in IndexBands : RenderFrames(dataset, index, bands)
    \/ RenderMosaic

SpecIndex == Init /\ [][NextIndex]_vars

\* ================================================================ claims

\* The call of thread t has made a dict access and is certain to make
\* another one before it returns.
Between(t) ==
    \/ pc[t] \in {"g_read", "g_del", "s_now", "s_iter", "s_collect"}
    \/ pc[t] = "s_del" /\ todo[t] # {}

\* The lookup of thread t compared the entry it read with the clock and
\* found it expired (age >= TTL).
JudgedExpired(t) ==
    /\ rd[t] # NoEntry
    /\ now[t] - rd[t].ts >= CACHE_TTL

\* C1 (cache fidelity): a _set_cached(k, r) followed by a _get_cached(k),
\* with no clock advance and no other cache operation from the start of the
\* store to the return of the lookup, returns exactly r (and does not raise).
C1_CacheFidelity ==
    \A t \in Threads :
        (fid.st = "get" /\ fid.th = t) =>
            /\ pc[t] # "h_exc"
            /\ pc[t] = "g_ret" => cached[t] = fid.r

C1_Witness ==
    \E t \in Threads :
        /\ fid.st = "get" /\ fid.th = t
        /\ pc[t] = "g_ret"
        /\ cached[t] = fid.r
        /\ fid.r \in Urls
        /\ fid.k = key[t]

\* C2 (no stale result): whenever _get_cached returns a result, the clock
\* value it read minus the stored timestamp of the entry it read is less
\* than 5400 s, and the result is the url of that entry.
C2_NoStaleServed ==
    \A t \in Threads :
        (pc[t] = "g_ret" /\ cached[t] # None) =>
            /\ now[t] - rd[t].ts < 5400
            /\ cached[t] = rd[t].url

C2_Witness ==
    \E t \in Threads :
        /\ pc[t] = "g_ret"
        /\ cached[t] \in Urls
        /\ cached[t] = rd[t].url
        /\ now[t] - rd[t].ts < 5400
        /\ ticks > 0

\* C3 (expired lookup): a _get_cached(k) that finds the entry of k with
\* age >= TTL does not raise and returns None, and when it returns (no
\* other thread having touched the cache in between) the cache has no
\* entry for k.
C3_ExpiredLookupMisses ==
    \A t \in Threads :
        JudgedExpired(t) =>
            /\ pc[t] # "h_exc"
            /\ (pc[t] = "g_ret" /\ alone[t]) =>
                   (cached[t] = None /\ ~Has(cache, key[t]))

\* C4 (repeated request served from the cache): a request whose key has an
\* unexpired entry when the lookup starts, and still unexpired now, is
\* answered from the cache: the lookup returns a url, the handler neither
\* fails nor goes on to the remote call and the store.
C4_RepeatedRequestCached ==
    \A t \in Threads :
        (look[t] # Absent /\ clock - look[t] < CACHE_TTL) =>
            /\ pc[t] \notin {"h_exc", "h_remote"}
            /\ pc[t] = "g_ret" => cached[t] # None

\* C5 (entries immutable): no step changes or removes the entry of a key
\* while that entry is unexpired.
C5_EntriesImmutable ==
    [][\A k \in DOMAIN cache :
          (clock' - cache[k].ts < CACHE_TTL) =>
              (Has(cache', k) /\ cache'[k] = cache[k])]_vars

\* C6 (sweep on store): when a _set_cached call returns and no other thread
\* has touched the cache since the call began, no entry left in the cache
\* is older than 5400 s at the time `now` the call read.
C6_SweepOnStore ==
    \A t \in Threads :
        (pc[t] = "s_ret" /\ alone[t]) =>
            \A k \in DOMAIN cache : now[t] - cache[k].ts <= 5400

C6_Witness ==
    \E t \in Threads :
        /\ pc[t] = "s_ret"
        /\ alone[t]
        /\ expired[t] # {}
        /\ ~(expired[t] \subseteq DOMAIN cache)

\* C7 (mutual exclusion): two threads are never both between the first and
\* the last dict access of their _get_cached / _set_cached calls.
C7_MutualExclusion ==
    \A u, v \in Threads :
        u # v => ~(Between(u) /\ Between(v))

\* C8 (no double expiry): when two handlers look up the same key and both
\* find it expired, neither call raises.
C8_NoDoubleExpire ==
    \A u, v \in Threads :
        (/\ u # v
         /\ key[u] = key[v]
         /\ JudgedExpired(u)
         /\ JudgedExpired(v)) =>
            (pc[u] # "h_exc" /\ pc[v] # "h_exc")

\* C9 (sweep does not race): the sweep of _set_cached never raises, and
\* every entry it deletes is one that is expired at the sweep's `now`.
C9_SweepNoRace ==
    /\ [](\A t \in Threads :
              err[t] \notin {"set:KeyError", "set:RuntimeError"})
    /\ [][\A t \in Threads :
              (pc[t] = "s_del" /\ todo'[t] # todo[t] /\ pc'[t] = "s_del") =>
                  \A k \in todo[t] \ todo'[t] :
                      SweepExpired(now[t], cache[k].ts)]_vars

\* C10 (no partially inserted entry): a lookup that hits returns the url
\* that one _set_cached call bound to the key, and the timestamp it was
\* judged against is the one that same call wrote.
C10_NoPartialEntry ==
    \A t \in Threads :
        (pc[t] = "g_ret" /\ cached[t] # None) =>
            /\ cached[t] = rd[t].src.url
            /\ rd[t].ts = rd[t].src.ts
            /\ now[t] - rd[t].src.ts < CACHE_TTL

\* A hit, while another thread is in the middle of storing a different url
\* under the same key.
C10_Witness ==
    \E t, u \in Threads :
        /\ t # u
        /\ pc[t] = "g_ret"
        /\ cached[t] \in Urls
        /\ pc[u] \in InsideSet
        /\ key[u] = key[t]
        /\ tileUrl[u] # cached[t]

\* The handler of thread t has had its tile URL from the remote service and
\* has called _set_cached (or is about to).
Built(t) == pc[t] \in ({"s_put", "s_ret"} \cup InsideSet)

\* C11 (duplicate builds are tolerated): when two requests with the same key
\* have both missed and both had a tile URL from the remote service, neither
\* store raises, and once both stores have returned the cache holds the
\* entry of that key.
C11_DuplicateBuildsSucceed ==
    \A t, u \in Threads :
        (t # u /\ key[t] # None /\ key[t] = key[u] /\ Built(u)) =>
            /\ ~(pc[t] = "h_exc"
                 /\ err[t] \in {"set:KeyError", "set:RuntimeError"})
            /\ (pc[t] = "s_ret" /\ pc[u] = "s_ret") => Has(cache, key[t])

\* The request in hand asks for an RGB composite of bands the caller chose:
\* tiles_embeddings and tiles_change always do, tiles_dataset does when the
\* caller names more than one band.
RgbRequest ==
    \/ hreq.ep \in {"embeddings", "change"}
    \/ hreq.ep = "dataset" /\ hreq.nbands > 1

\* C12 (band count): a request for an RGB composite whose band list has a
\* length other than 3 (its other parameters being well formed) is answered
\* 400, and its handler makes no cache lookup, no remote call and no store.
C12_BandCountRejected ==
    (RgbRequest /\ hreq.ok /\ hreq.nbands # 3) =>
        /\ hpc = "done"
        /\ hres.status = 400
        /\ hlog = NoLog

\* C13 (clusters clamped): a clustering request with integer clusters = c
\* is never answered 400; it goes on with k = c when 2 <= c <= 15, k = 2
\* when c < 2 and k = 15 when c > 15, and the cache key, the training of the
\* clusterer and the `clusters` field of the response all carry that k.
C13_ClustersClamped ==
    (hreq.ep = "clustering" /\ hreq.ok) =>
        LET c == hreq.clusters
            k == hreq.n_clusters
        IN  /\ k >= 2 /\ k <= 15
            /\ (c >= 2 /\ c <= 15) => k = c
            /\ c < 2 => k = 2
            /\ c > 15 => k = 15
            /\ hres.status # 400
            /\ hpc \in {"lookup", "build", "store"} => hkey[2] = k
            /\ hlog.remotes > 0 => hlog.trainK = k
            /\ (hres.status = 200 /\ ~hres.cached) => hres.clusters = k

\* A request with clusters above the range has been answered after a
\* training with the clamped count.
C13_Witness ==
    /\ hreq.ep = "clustering"
    /\ hreq.ok
    /\ hreq.clusters > 15
    /\ hpc = "done"
    /\ hres.status = 200
    /\ ~hres.cached
    /\ hres.clusters = 15
    /\ hlog.trainK = 15
    /\ hlog.stores = 1

\* C19 (similarity without data): a similarity request whose reference
\* point has no data is answered with the NoDataAtPoint error (404); no tile
\* URL is handed back for it and nothing is stored in the cache for it.
C19_NoDataAtPoint ==
    (hreq.ep = "similarity" /\ hreq.ok /\ ~hreq.data) =>
        /\ hlog.stores = 0
        /\ hpc = "done" => (hres.status = 404 /\ hres.url = None)

\* The tile identifiers carried by the candidates the remote service
\* returned, and whether tile t has a candidate on date d.
CandidateTiles ==
    {features[i].mgrs_tile : i \in DOMAIN features} \ {NoTile}
CandidateOn(d, t) ==
    \E i \in DOMAIN features :
        features[i].date = d /\ features[i].mgrs_tile = t

C15_ZeroCandidates ==
    [][(cpc = "resolve" /\ features = << >> /\ cpc' = "done") =>
          /\ cres'.status = 200
          /\ cres'.requiredTiles = << >>
          /\ cres'.dates = << >>
          /\ cres'.completeDates = 0
          /\ cres'.message = "No images found matching criteria"]_vars

C15_Witness ==
    /\ cpc = "done"
    /\ features = << >>
    /\ cres.status = 200
    /\ cres.message = "No images found matching criteria"
    /\ cres.completeDates = 0

\* C16 (empty tile set): when the remote service returned candidates and
\* none of them carries a tile identifier, the handler answers 200 with the
\* empty result (no required tile, no date) and a message saying that no
\* imagery matched.
C16_EmptyTileSet ==
    (cpc = "done" /\ features # << >> /\ CandidateTiles = {}) =>
        /\ cres.status = 200
        /\ cres.requiredTiles = << >>
        /\ cres.dates = << >>
        /\ cres.message # None

\* C17 (best candidate per tile): the image selected for a tile on a
\* complete date is a candidate of that tile and date, no other candidate
\* of the tile and date has a lower cloud cover, and among the candidates
\* with that cloud cover it is the first of the list.
C17_BestCandidate ==
    \A j \in DOMAIN complete :
        \A n \in DOMAIN complete[j].tiles :
            LET sel == complete[j].tiles[n]
                img == features[sel.imageId]
            IN  /\ img.mgrs_tile = sel.tileId
                /\ img.date = complete[j].date
                /\ \A i \in DOMAIN features :
                       (features[i].mgrs_tile = sel.tileId
                        /\ features[i].date = complete[j].date) =>
                           /\ img.cloudCover <= features[i].cloudCover
                           /\ img.cloudCover = features[i].cloudCover
                                  => sel.imageId <= i

C20_WaterTop ==
    (ipc = "done" /\ ires.status = 200) =>
        LET e == ires.embedding
        IN  (EmbLen * SumSq(e) - Sum(e) * Sum(e) < 25 * EmbLen * EmbLen) =>
                /\ ires.landCover.type = "Water/Ocean"
                /\ ires.landCover.confidence = 7

\* A vector of low deviation for which the vegetation and the desert rule
\* fire as well.
C20_Witness ==
    /\ ipc = "done"
    /\ ires.status = 200
    /\ ires.landCover.type = "Water/Ocean"
    /\ Len(ires.landCover.alternatives) = 2
    /\ ires.landCover.alternatives[1].type = "Vegetation/Forest"
    /\ ires.embedding[1] # ires.embedding[2]

\* The rule that emits a label, and whether any of the five rules holds.
RuleOf(type, e) ==
    CASE type = "Water/Ocean" -> WaterRule(e)
      [] type = "Vegetation/Forest" -> VegetationRule(e)
      [] type = "Urban/Built-up" -> UrbanRule(e)
      [] type = "Cropland" -> CroplandRule(e)
      [] type = "Desert/Barren" -> DesertRule(e)
      [] OTHER -> FALSE
AnyRule(e) ==
    \/ WaterRule(e)
    \/ VegetationRule(e)
    \/ UrbanRule(e)
    \/ CroplandRule(e)
    \/ DesertRule(e)
\* The labels of the classifier's output, the top one first.
Labels(lc) ==
    {lc.type} \cup {lc.alternatives[i].type : i \in DOMAIN lc.alternatives}

\* C21 (classifier fallback): 'Mixed/Unknown' is among the labels returned
\* exactly when none of the five rules holds, and it is then the type, with
\* confidence 0.3 and no alternative; when a rule holds, the type is the
\* label of a rule that holds.  For the all-zero vector the stats carry
\* mean = 0 and std = 0 and the type is not the fallback.
C21_Fallback ==
    (ipc = "done" /\ ires.status = 200) =>
        LET e == ires.embedding
            lc == ires.landCover
        IN  /\ "Mixed/Unknown" \in Labels(lc) <=> ~AnyRule(e)
            /\ ~AnyRule(e) =>
                   /\ lc.type = "Mixed/Unknown"
                   /\ lc.confidence = 3
                   /\ lc.alternatives = << >>
            /\ AnyRule(e) => RuleOf(lc.type, e)
            /\ (\A i \in DOMAIN e : e[i] = 0) =>
                   /\ lc.stats.mean = 0
                   /\ lc.stats.std = 0
                   /\ lc.type # "Mixed/Unknown"
                   /\ RuleOf(lc.type, e)

\* A vector for which no rule holds, answered with the fallback alone.
C21_Witness ==
    /\ ipc = "done"
    /\ ires.status = 200
    /\ ~AnyRule(ires.embedding)
    /\ ires.landCover.type = "Mixed/Unknown"
    /\ ires.landCover.alternatives = << >>

\* The all-zero vector (some bands of the result being null), answered
\* with the label of the rule that holds for it.
ZeroVectorAnswered ==
    /\ ipc = "done"
    /\ ires.status = 200
    /\ \A i \in DOMAIN ires.embedding : ires.embedding[i] = 0
    /\ ires.landCover.type = "Water/Ocean"
    /\ ires.landCover.stats.std = 0

\* The place of a label in the rule list of server.py:424-436.
RuleIndex(type) ==
    CASE type = "Water/Ocean" -> 1
      [] type = "Vegetation/Forest" -> 2
      [] type = "Urban/Built-up" -> 3
      [] type = "Cropland" -> 4
      [] type = "Desert/Barren" -> 5
      [] OTHER -> 6
\* The candidates reported: the type and the alternatives.
Reported(lc) ==
    <<Cat(lc.type, lc.confidence)>> \o lc.alternatives
\* Candidate x ranks before candidate y.
RanksBefore(x, y) ==
    \/ x.confidence > y.confidence
    \/ x.confidence = y.confidence /\ RuleIndex(x.type) < RuleIndex(y.type)

\* C22 (classifier ranking): the type and the alternatives are candidates
\* (labels of rules that hold, or the fallback), three of them at most and
\* all of them when there are fewer; each one reported ranks before the one
\* reported next and before every candidate left out, where a candidate
\* ranks before another when its confidence is higher, or equal with its
\* rule earlier in the rule list.
C22_Ranking ==
    (ipc = "done" /\ ires.status = 200) =>
        LET e == ires.embedding
            out == Reported(ires.landCover)
            cats == Categories(e)
            all == {cats[i] : i \in DOMAIN cats}
            shown == {out[i] : i \in DOMAIN out}
        IN  /\ shown \subseteq all
            /\ Len(out) = Min2(3, Cardinality(all))
            /\ Len(ires.landCover.alternatives) <= 2
            /\ \A i \in DOMAIN out : \A c \in all :
                   out[i].confidence >= c.confidence \/ c \in shown
            /\ \A i \in 1..(Len(out) - 1) : RanksBefore(out[i], out[i + 1])
            /\ \A i \in DOMAIN out : \A c \in all \ shown :
                   RanksBefore(out[i], c)

\* Two candidates of equal confidence, reported in the order of the rules.
C22_Witness ==
    /\ ipc = "done"
    /\ ires.status = 200
    /\ ires.landCover.type = "Urban/Built-up"
    /\ ires.landCover.confidence = 5
    /\ Len(ires.landCover.alternatives) = 1
    /\ ires.landCover.alternatives[1] = Cat("Cropland", 5)

\* The handler of the request in hand has been left by an exception: a
\* parameter did not parse, or the pipeline or the remote call raised (the
\* remote call was made and nothing was stored).
ParseRaised == hpc = "done" /\ ~hreq.ok
RemoteRaised == hpc = "done" /\ hlog.remotes > 0 /\ hlog.stores = 0

Wanted ==
    SortedSeq({i \in DOMAIN hreq.items : hreq.items[i].images > 0})

\* C24 (per-item failure): a batch request whose parameters are well formed
\* is answered 200 with one record for every item it names, in input
\* order; the record of an item is an error record when the build of that
\* item raised and carries a tile URL otherwise.
C24_PerItemFailure ==
    (/\ hpc = "done"
     /\ hreq.ep \in {"frames", "mosaic"} \cup AnimEps
     /\ hreq.ok
     /\ hres.status # 400) =>
        /\ hres.status = 200
        /\ Len(hres.frames) = Len(Wanted)
        /\ \A j \in DOMAIN hres.frames :
               /\ hres.frames[j].id = hreq.items[Wanted[j]].id
               /\ hres.frames[j].error <=> Wanted[j] \in hreq.bad
               /\ ~hres.frames[j].error => hres.frames[j].tileUrl \in Urls

\* C26 (animation cost is bounded): an animation request makes at most 60
\* cache lookups and at most 60 remote calls, and its response has at most
\* 60 frames.
C26_AnimationBounded ==
    (hpc = "done" /\ hreq.ep \in AnimEps) =>
        /\ hlog.lookups <= 60
        /\ hlog.remotes <= 60
        /\ Len(hres.frames) <= 60

\* C25 (validation errors stop at the normalizer): a request with a missing
\* or malformed parameter is answered 400, and its handler makes no cache
\* lookup, no remote call and no cache store.
C25_ValidationStops ==
    (hpc = "done" /\ hreq.ep # None /\ ~hreq.ok) =>
        /\ hres.status = 400
        /\ hlog = NoLog

\* C27 (point info): when the reduction has returned, the request is
\* answered 404 if the result is null or every band of it is null, and
\* otherwise 200 with the 64 band values (0 for a band that is null) and
\* the classification of that vector; no step of the handler reads or
\* changes the cache.
C27_PointInfo ==
    [][/\ cache' = cache
       /\ (ipc = "respond" /\ ipc' = "done") =>
              LET nodata == \/ result.null
                            \/ \A i \in 1..EmbLen : result.vals[i] = Missing
              IN  /\ ires'.status = IF nodata THEN 404 ELSE 200
                  /\ ~nodata =>
                         /\ Len(ires'.embedding) = EmbLen
                         /\ \A i \in 1..EmbLen :
                                ires'.embedding[i] =
                                    IF result.vals[i] = Missing THEN 0
                                    ELSE result.vals[i]
                         /\ \E mean \in MeanStats(ires'.embedding) :
                                ires'.landCover =
                                    ClassifyEmbedding(ires'.embedding, mean)
      ]_vars

\* A result whose bands are all null, answered 404.
C27_Witness ==
    /\ ipc = "done"
    /\ ~result.null
    /\ \A i \in DOMAIN result.vals : result.vals[i] = Missing
    /\ ires.status = 404

\* A result of which some bands are null, answered with zeros in their
\* place.
SomeBandsNull ==
    /\ ipc = "done"
    /\ ires.status = 200
    /\ result.vals[1] = Missing
    /\ ires.embedding[1] = 0
    /\ ires.embedding[2] # 0

\* C28 (data flow ordering): a step in which the handler calls the remote
\* service is taken only after its lookup of the request's key has missed
\* (and the key is still not served by the cache); a step in which it
\* stores is taken only after that remote call has returned a URL, and it
\* binds the request's key to exactly the URL sent in the response, which
\* carries cached = false; a response served from the cache is sent without
\* a remote call or a store.
C28_DataFlowOrder ==
    [][/\ hlog'.remotes > hlog.remotes =>
              /\ hlog.lookups = 1
              /\ hlog.remotes = 0
              /\ GetCachedResult(cache, hkey, clock) = None
       /\ hlog'.stores > hlog.stores =>
              /\ hlog.remotes = 1
              /\ hlog.stores = 0
              /\ hres.url \in Urls
              /\ Has(cache', hkey)
              /\ cache'[hkey].url = hres'.url
              /\ hres'.url = hres.url
              /\ hres'.status = 200
              /\ ~hres'.cached
       /\ (hpc = "lookup" /\ hpc' = "done") =>
              /\ hres'.cached
              /\ hres'.url = cache[hkey].url
              /\ hlog'.remotes = 0
              /\ hlog'.stores = 0
       /\ \A k \in DOMAIN cache' :
              (~Has(cache, k) \/ cache'[k] # cache[k]) =>
                  (hlog'.stores > hlog.stores /\ k = hkey)
      ]_vars

\* A request has missed, has had its URL from the remote service after a
\* clock advance, has stored it and has been answered with it.
C28_Witness ==
    /\ hpc = "done"
    /\ hres.status = 200
    /\ ~hres.cached
    /\ hlog.lookups = 1 /\ hlog.remotes = 1 /\ hlog.stores = 1
    /\ Has(cache, hkey)
    /\ cache[hkey].url = hres.url
    /\ cache[hkey].ts > 0
    /\ reqs = 2

\* C30 (deforestation anchors): a deforestation request whose region has
\* no sampled pixel under the pristine mask or under the deforested mask is
\* answered with an error, without a tile URL, and nothing is stored under
\* its key.
C30_AnchorsRequired ==
    (hpc = "done" /\ hreq.ep = "deforestation" /\ ~hreq.data) =>
        /\ hres.status \notin {0, 200}
        /\ hres.url = None
        /\ hlog.stores = 0
        /\ ~Has(cache, hkey)

\* Two requests of the clustering or of the similarity endpoint that
\* differ in lat or lng only, by values that agree after the rounding of
\* their endpoint.
RoundedAlike(r1, r2) ==
    /\ r1.ep = r2.ep
    /\ r1.ep \in {"clustering", "similarity"}
    /\ r1.s = r2.s
    /\ LET d == IF r1.ep = "clustering" THEN ClusteringDigits
                ELSE SimilarityDigits
       IN  /\ RoundTo(r1.n[1], d) = RoundTo(r2.n[1], d)
           /\ RoundTo(r1.n[2], d) = RoundTo(r2.n[2], d)
    /\ r1.ep = "clustering" =>
           /\ Degrees(r1.n[3]) = Degrees(r2.n[3])
           /\ Clamp(r1.n[4]) = Clamp(r2.n[4])

RoundedCollision ==
    /\ hpc = "keyed"
    /\ hreq[1].ep = "clustering" /\ hreq[2].ep = "clustering"
    /\ hreq[1].n[1] # hreq[2].n[1]
    /\ hkey[1] = hkey[2]
    /\ hres[1] # hres[2]

\* C31 (optical month window): for a month m of 1..12 the window starts on
\* the first day of month max(1, m - 1), lies inside the requested year, and
\* keeps the images of every day of the months m - 1, m and m + 1 of that
\* year.
C31_MonthWindow ==
    (hpc = "filtered" /\ hreq.month # Absent) =>
        /\ hres.start = <<Max2(1, hreq.month - 1), 1>>
        /\ Ordinal(hreq.year, hres.end)
               <= DaysBefore(hreq.year, 13) + 1
        /\ (hkey[1] \in {hreq.month - 1, hreq.month, hreq.month + 1}) =>
               hlog.remotes = 1

\* C32 (spectral index selection): for every dataset and index name both
\* timelapse endpoints compute the same formula, on the same bands and in
\* the same style when it is an index formula; a name of the library
\* (whatever its case), on a dataset whose bands are known, selects the
\* formula of that name; a name outside the library selects no index
\* formula.
C32_SameIndexFormula ==
    hpc = "mosaic" =>
        /\ hres[1].formula = hres[2].formula
        /\ hres[1].formula # "rgb" => hres[1] = hres[2]
        /\ (Lower(hreq.index) \in IndexLibrary
              /\ FramesMapping(hreq.dataset).known) =>
               (hres[1].formula = Lower(hreq.index)
                  /\ hres[2].formula = Lower(hreq.index))
        /\ Lower(hreq.index) \notin IndexLibrary =>
               (hres[1].formula = "rgb" /\ hres[2].formula = "rgb")

\* C33 (lookup and sweep agree on expiry): right after a store, every
\* entry the sweep of that store has left in the cache is one a lookup at
\* the same clock value returns as a hit.
C33_SweepAgreesWithLookup ==
    [][hlog'.stores > hlog.stores =>
           \A k \in DOMAIN cache' :
               GetCachedResult(cache', k, clock') # None]_vars

\* C34 (frame of lookup): a step of a _get_cached call either leaves the
\* cache as it is, or removes the entry of the looked-up key and nothing
\* else, and then that entry is expired at the time the call read.
C34_LookupFrame ==
    [][\A t \in Threads :
          (pc[t] \in InsideGet /\ pc'[t] # pc[t]) =>
              \/ cache' = cache
              \/ /\ Has(cache, key[t])
                 /\ cache' = DictDel(cache, key[t])
                 /\ ~GetFresh(now[t], cache[key[t]].ts)]_vars

\* C35 (a failed build stores nothing): a request in which a step after
\* the cache miss has raised has had no URL from the remote service and has
\* not called _set_cached: what raised is the remote call.
C35_FailedBuildStoresNothing ==
    \A t \in Threads :
        (pc[t] = "h_exc" /\ err[t] # "get:KeyError") =>
            /\ err[t] = "remote:Error"
            /\ tileUrl[t] = None

\* C36 (complete dates carry every required tile once): in a response that
\* resolved candidates, the tiles of every date returned are one record per
\* required tile, in the order of requiredTiles (increasing tile
\* identifier); tileCount is the number of required tiles and completeDates
\* the number of dates returned.
C36_OneRecordPerTile ==
    (cpc = "done" /\ cres.status = 200 /\ features # << >>) =>
        /\ \A j \in DOMAIN cres.dates :
               /\ Len(cres.dates[j].tiles) = Len(cres.requiredTiles)
               /\ \A n \in DOMAIN cres.dates[j].tiles :
                      cres.dates[j].tiles[n].tileId = cres.requiredTiles[n]
        /\ \A n \in 1..(Len(cres.requiredTiles) - 1) :
               cres.requiredTiles[n] < cres.requiredTiles[n + 1]
        /\ cres.tileCount = Len(cres.requiredTiles)
        /\ cres.completeDates = Len(cres.dates)

\* Two candidates of tile 1 and one of tile 2 on the same date, the
\* candidate of tile 2 first: the date is returned with one record per tile,
\* tile 1 first.  And a response in which the slice dropped a complete date.
C36_Witness ==
    /\ cpc = "done"
    /\ cres.status = 200
    /\ Len(features) = 3
    /\ features[1].mgrs_tile = 2
    /\ features[2].mgrs_tile = 1 /\ features[3].mgrs_tile = 1
    /\ Len(cres.dates) = 1
    /\ Len(cres.dates[1].tiles) = 2
    /\ cres.dates[1].tiles[1].tileId = 1
    /\ cres.tileCount = 2

SlicedCount ==
    /\ cpc = "done"
    /\ cres.status = 200
    /\ Len(complete) = 2
    /\ cres.completeDates = 1

\* C37 (limit bounds the dates returned): whatever the integer limit, zero
\* and negative values included, the number of dates returned is at most
\* max(limit, 0).
C37_LimitBounds ==
    (cpc = "done" /\ cres.status = 200) =>
        Len(cres.dates) <= Max2(limit, 0)

\* The candidate list fs in the order p, the orders of n candidates, and
\* the dates of a response with each selected image named by the candidate
\* it is (its identifier is its position, which a reordering changes).
Permuted(fs, p) == [i \in DOMAIN fs |-> fs[p[i]]]
Orders(n) ==
    {p \in [1..n -> 1..n] : \A i, j \in 1..n : i # j => p[i] # p[j]}
Selected(fs, dates) ==
    [j \in DOMAIN dates |->
        [date |-> dates[j].date,
         tiles |-> [n \in DOMAIN dates[j].tiles |->
                      [tileId |-> dates[j].tiles[n].tileId,
                       image |-> fs[dates[j].tiles[n].imageId]]]]]
\* No two candidates of the same tile and date have equal cloud cover.
DistinctClouds(fs) ==
    \A i, j \in DOMAIN fs :
        (i # j /\ fs[i].mgrs_tile = fs[j].mgrs_tile
               /\ fs[i].date = fs[j].date) =>
            fs[i].cloudCover # fs[j].cloudCover

\* C38 (coverage resolution is independent of candidate order): when no two
\* candidates of the same tile and date have equal cloud cover, the
\* resolver gives, for the candidates in any other order, the same
\* requiredTiles, the same dates in the same order and the same image for
\* every tile.
C38_OrderIndependent ==
    (cpc = "done" /\ cres.status = 200 /\ features # << >>
       /\ DistinctClouds(features)) =>
        \A p \in Orders(Len(features)) :
            LET fs == Permuted(features, p)
            IN  /\ ~ZeroDivision(fs)
                /\ SortedSeq(AllTiles(fs)) = cres.requiredTiles
                /\ Selected(fs, Slice(CompleteDates(fs), limit))
                       = Selected(features, cres.dates)

\* C39 (no fired candidate is dropped): at most three of the five rules
\* hold for a vector (the water rule and the cropland rule never hold
\* together, nor do the urban rule and the desert rule), and the label of
\* every rule that holds is the type or one of the alternatives returned.
C39_AllFiredListed ==
    (ipc = "done" /\ ires.status = 200) =>
        LET e == ires.embedding
        IN  /\ Len(Fired(e)) <= 3
            /\ ~(WaterRule(e) /\ CroplandRule(e))
            /\ ~(UrbanRule(e) /\ DesertRule(e))
            /\ \A i \in DOMAIN Fired(e) :
                   Fired(e)[i].type \in Labels(ires.landCover)
            /\ Len(Reported(ires.landCover)) = Len(Categories(e))

\* Three rules hold (water, vegetation and desert), and the answer carries
\* all three labels.
C39_Witness ==
    /\ ipc = "done"
    /\ ires.status = 200
    /\ Len(Fired(ires.embedding)) = 3
    /\ DesertRule(ires.embedding)
    /\ Len(ires.landCover.alternatives) = 2
    /\ Cardinality(Labels(ires.landCover)) = 3

====
